---- MODULE Spec2Model ----
(***************************************************************************)
(* State-machine model of klever.channel (src/src/klever/channel.py):      *)
(* one channel, its Sender/Receiver endpoints and the cocotb tasks that    *)
(* call the endpoint API.  Scheduling is cooperative: everything a task    *)
(* does between two suspension points (an await that really suspends) is   *)
(* one atomic step.  The suspension points are the lock acquisition of     *)
(* clone/derive/close and the Event waits of the blocking send/receive.    *)
(***************************************************************************)
EXTENDS Integers, Sequences, FiniteSets, TLC

\* ------------------------------------------------------------- bounds
NumTasks == 3
NumCallers == 2
MaxEndpoints == 3
MaxSends == 3
MaxCapacity == 2
MaxCancels == 1

Tasks == 1..NumTasks
\* The tasks that call the API where fewer than all tasks do.
Callers == 1..NumCallers
NoTask == 0
NoItem == 0
NoneRef == "None"
ChannelRef == "channel"
\* The channel object of another create call.
OtherChannelRef == "other channel"

VARIABLES
    args,                   \* the arguments create was called with
    mode,                   \* which _Channel subclass create() instantiated
    capacity,               \* _QueueChannel._capacity
    copy_on_send,           \* _Channel._copy_on_send
    only_single_producer,   \* _Channel._only_single_producer
    only_single_consumer,   \* _Channel._only_single_consumer
    open_senders,           \* _Channel._open_senders
    open_receivers,         \* _Channel._open_receivers
    senders_available,      \* _Channel.senders_available (Event flag)
    receivers_available,    \* _Channel.receivers_available (Event flag)
    lock_holder,            \* _Channel.lock: the task holding it, or NoTask
    lock_waiters,           \* _Channel.lock: tasks queued on acquire, FIFO
    buffer,                 \* _QueueChannel._buffer (a cocotb Queue)
    queues,                 \* the Queue object made for each receiver endpoint
    qkeys,                  \* keys of the dict _BroadcastChannel._queues
    senders,                \* _RendezvousChannel._senders
    receivers,              \* _RendezvousChannel._receivers
    events,                 \* the Event objects that are set
    endpoints,              \* every endpoint object created so far
    pc,                     \* where each task is suspended
    op,                     \* the API call each task is in (or made last)
    res,                    \* how each task's last API call ended
    nsends,                 \* number of values handed to the channel so far
    ncancels,               \* number of tasks cancelled so far
    sentLog,                \* history: items whose send returned, in order
    recvLog,                \* history: items returned by receive, in order
    delivered,              \* history: items taken from each receiver's own Queue
    nsuccess                \* history: sends that returned inside each task's
                            \* current send_eventually call

cfgVars == <<args, mode, capacity, copy_on_send, only_single_producer, only_single_consumer>>

vars == <<args, mode, capacity, copy_on_send, only_single_producer, only_single_consumer,
          open_senders, open_receivers, senders_available, receivers_available,
          lock_holder, lock_waiters, buffer, queues, qkeys, senders, receivers,
          events, endpoints, pc, op, res, nsends, ncancels, sentLog, recvLog,
          delivered, nsuccess>>

\* The mutable part of the state as one record, so that the steps of the
\* program are functions from state to state that can be chained.
State ==
    [open_senders |-> open_senders, open_receivers |-> open_receivers,
     senders_available |-> senders_available,
     receivers_available |-> receivers_available,
     lock_holder |-> lock_holder, lock_waiters |-> lock_waiters,
     buffer |-> buffer, queues |-> queues, qkeys |-> qkeys,
     senders |-> senders, receivers |-> receivers, events |-> events,
     endpoints |-> endpoints, pc |-> pc, op |-> op, res |-> res,
     nsends |-> nsends, ncancels |-> ncancels,
     sentLog |-> sentLog, recvLog |-> recvLog, delivered |-> delivered,
     nsuccess |-> nsuccess]

Apply(S) ==
    /\ open_senders' = S.open_senders
    /\ open_receivers' = S.open_receivers
    /\ senders_available' = S.senders_available
    /\ receivers_available' = S.receivers_available
    /\ lock_holder' = S.lock_holder
    /\ lock_waiters' = S.lock_waiters
    /\ buffer' = S.buffer
    /\ queues' = S.queues
    /\ qkeys' = S.qkeys
    /\ senders' = S.senders
    /\ receivers' = S.receivers
    /\ events' = S.events
    /\ endpoints' = S.endpoints
    /\ pc' = S.pc
    /\ op' = S.op
    /\ res' = S.res
    /\ nsends' = S.nsends
    /\ ncancels' = S.ncancels
    /\ sentLog' = S.sentLog
    /\ recvLog' = S.recvLog
    /\ delivered' = S.delivered
    /\ nsuccess' = S.nsuccess
    /\ UNCHANGED cfgVars

\* ------------------------------------------------------------- tasks
\* Task.done(): the task has finished; here, it was cancelled while suspended.
TaskDone(S, t) == S.pc[t] = "done"

\* An API call starts: the task remembers what it called.
Begin(S, t, kind, e) ==
    [S EXCEPT !.op[t] = [kind |-> kind, ep |-> e, item |-> NoItem],
              !.res[t] = "pending"]

\* The call returns normally; op[t].item keeps the value a receive returned.
Return(S, t) == [S EXCEPT !.pc[t] = "idle", !.res[t] = "ok", !.op[t].ep = 0]

\* The call ends by raising exception exc to the caller.
Raise(S, t, exc) ==
    [S EXCEPT !.pc[t] = "idle", !.res[t] = exc, !.op[t].ep = 0,
              !.op[t].item = NoItem]

\* ------------------------------------------------------------- events
\* Every wait creates a fresh Event; an Event is named by who created it.
PutEvent(t) == <<"put", t>>
GetEvent(t) == <<"get", t>>
ReceiverEvent(t) == <<"wakeup_event", t>>

\* _RendezvousChannel.send: the local `event` the sender waits on ...
SenderEvent(item) == <<"event", item>>
\* ... and the Event stored in the entry appended to _senders.
SenderEntryEvent(item) == <<"Event()", item>>

\* The wait of task t on senders_available / receivers_available.
WaitEvent(t) == <<"wait", t>>

\* Event.set() for each event of the set evs.
SetEvents(S, evs) == [S EXCEPT !.events = @ \cup evs]

\* The calls in which a task waits by wait_for_receivers / wait_for_senders.
WaitingCalls(kind) ==
    IF kind = "wait_for_receivers" THEN {"wait_for_receivers", "send_eventually"}
    ELSE {"wait_for_senders", "receive_eventually"}

\* senders_available.set() / receivers_available.set(): every task waiting on
\* that signal (in the call named kind) is released.
FireWaiters(S, kind) ==
    SetEvents(S, {WaitEvent(t) : t \in {u \in Tasks :
                      S.pc[u] = "wait" /\ S.op[u].kind \in WaitingCalls(kind)}})

\* ------------------------------------------------------------- cocotb Queue
NewQueue(maxsize) ==
    [maxsize |-> maxsize, items |-> <<>>, getters |-> <<>>, putters |-> <<>>]

QueueFull(q) == IF q.maxsize <= 0 THEN FALSE ELSE Len(q.items) >= q.maxsize

QueueEmpty(q) == q.items = <<>>

\* Pop waiters from the left up to and including the first whose task is not
\* done; that one's event is set.  Used by Queue and by the rendezvous lists.
RECURSIVE WakeupNext(_, _)
WakeupNext(S, waiters) ==
    IF waiters = <<>> THEN [rest |-> <<>>, set |-> {}]
    ELSE IF ~TaskDone(S, Head(waiters).task)
         THEN [rest |-> Tail(waiters), set |-> {Head(waiters).event}]
         ELSE WakeupNext(S, Tail(waiters))

\* The Queue a reference denotes: 0 is _QueueChannel._buffer, e > 0 is the
\* Queue created for receiver endpoint e of a broadcast channel.
GetQ(S, ref) == IF ref = 0 THEN S.buffer ELSE S.queues[ref]

SetQ(S, ref, q) ==
    IF ref = 0 THEN [S EXCEPT !.buffer = q] ELSE [S EXCEPT !.queues[ref] = q]

\* Mutant: the item is appended but no waiting getter is woken.
PutNowaitNoWake(S, ref, item) ==
    LET q == GetQ(S, ref)
    IN  SetQ(S, ref, [q EXCEPT !.items = Append(@, item)])

\* Queue.put_nowait on a queue that is not full: store, wake the next getter.
PutNowait(S, ref, item) ==
    LET q == GetQ(S, ref)
        w == WakeupNext(S, q.getters)
    IN  SetEvents(SetQ(S, ref, [q EXCEPT !.items = Append(@, item),
                                         !.getters = w.rest]), w.set)

\* Mutant: the head is taken but no waiting putter is woken.
GetNowaitNoWake(S, t, ref) ==
    LET q == GetQ(S, ref)
        S1 == SetQ(S, ref, [q EXCEPT !.items = Tail(@)])
    IN  [S1 EXCEPT !.op[t].item = Head(q.items)]

\* Mutant: the newest item is taken instead of the oldest.
GetNowaitLifo(S, t, ref) ==
    LET q == GetQ(S, ref)
        w == WakeupNext(S, q.putters)
        S1 == SetQ(S, ref, [q EXCEPT !.items = SubSeq(@, 1, Len(@) - 1),
                                     !.putters = w.rest])
    IN  SetEvents([S1 EXCEPT !.op[t].item = q.items[Len(q.items)]], w.set)

\* Mutant: the head is returned but left in the queue.
GetNowaitPeek(S, t, ref) ==
    LET q == GetQ(S, ref)
        w == WakeupNext(S, q.putters)
    IN  SetEvents([SetQ(S, ref, [q EXCEPT !.putters = w.rest])
                      EXCEPT !.op[t].item = Head(q.items)], w.set)

\* Queue.get_nowait by task t on a queue that is not empty: take the head
\* (it becomes the task's value), wake the next putter.
GetNowait(S, t, ref) ==
    LET q == GetQ(S, ref)
        w == WakeupNext(S, q.putters)
        S1 == SetQ(S, ref, [q EXCEPT !.items = Tail(@), !.putters = w.rest])
        S2 == IF ref = 0 THEN S1
              ELSE [S1 EXCEPT !.delivered[ref] = Append(@, Head(q.items))]
    IN  SetEvents([S2 EXCEPT !.op[t].item = Head(q.items)], w.set)

\* ------------------------------------------------------------- history
\* send returns to task t: its item is logged as sent.
ReturnSent(S, t) ==
    Return([S EXCEPT !.sentLog = Append(@, S.op[t].item), !.op[t].item = NoItem], t)

\* receive returns the value op[t].item to task t.
ReturnReceived(S, t) ==
    Return([S EXCEPT !.recvLog = Append(@, S.op[t].item)], t)

\* A value enters the channel: it gets the next item number.
NewItem(S, t) == [S EXCEPT !.nsends = @ + 1, !.op[t].item = S.nsends + 1]

\* ------------------------------------------------------------- Queue.put / get
\* `await self._buffer.put(value)` from the loop test on: suspend on a fresh
\* event while the queue is full, else put_nowait and return from send.
QueuePut(S, t, ref, item) ==
    LET q == GetQ(S, ref) IN
    IF QueueFull(q)
    THEN [SetQ(S, ref, [q EXCEPT !.putters =
                            Append(@, [event |-> PutEvent(t), task |-> t])])
             EXCEPT !.pc[t] = "put"]
    ELSE ReturnSent(PutNowait(S, ref, item), t)

\* `return await queue.get()` from the loop test on.
QueueGet(S, t, ref) ==
    LET q == GetQ(S, ref) IN
    IF QueueEmpty(q)
    THEN [SetQ(S, ref, [q EXCEPT !.getters =
                            Append(@, [event |-> GetEvent(t), task |-> t])])
             EXCEPT !.pc[t] = "get"]
    ELSE ReturnReceived(GetNowait(S, t, ref), t)

\* ------------------------------------------------------------- _Channel
AddSender(S) ==
    FireWaiters([S EXCEPT !.open_senders = @ + 1, !.senders_available = TRUE],
                "wait_for_senders")

BaseAddReceiver(S) ==
    FireWaiters([S EXCEPT !.open_receivers = @ + 1, !.receivers_available = TRUE],
                "wait_for_receivers")

\* Mutant: remove_sender decrements but never clears senders_available.
RemoveSenderKeepsSignal(S) == [S EXCEPT !.open_senders = @ - 1]

RemoveSender(S) ==
    [S EXCEPT !.open_senders = @ - 1,
              !.senders_available = IF S.open_senders - 1 = 0 THEN FALSE ELSE @]

BaseRemoveReceiver(S) ==
    [S EXCEPT !.open_receivers = @ - 1,
              !.receivers_available = IF S.open_receivers - 1 = 0 THEN FALSE ELSE @]

\* Mutant: the new receiver's Queue starts with the items another receiver's
\* Queue holds.
AddReceiverCopiedQueue(S, e) ==
    IF mode = "broadcast"
    THEN [BaseAddReceiver(S) EXCEPT
             !.queues = [x \in DOMAIN S.queues \cup {e} |->
                            IF x # e THEN S.queues[x]
                            ELSE IF S.qkeys = {} THEN NewQueue(0)
                            ELSE [NewQueue(0) EXCEPT !.items =
                                     S.queues[CHOOSE y \in S.qkeys : TRUE].items]],
             !.qkeys = @ \cup {e},
             !.delivered = [x \in DOMAIN S.delivered \cup {e} |->
                               IF x = e THEN <<>> ELSE S.delivered[x]]]
    ELSE BaseAddReceiver(S)

\* _BroadcastChannel overrides add_receiver/remove_receiver to keep _queues.
AddReceiver(S, e) ==
    IF mode = "broadcast"
    THEN [BaseAddReceiver(S) EXCEPT
             !.queues = [x \in DOMAIN S.queues \cup {e} |->
                            IF x = e THEN NewQueue(0) ELSE S.queues[x]],
             !.qkeys = @ \cup {e},
             !.delivered = [x \in DOMAIN S.delivered \cup {e} |->
                               IF x = e THEN <<>> ELSE S.delivered[x]]]
    ELSE BaseAddReceiver(S)

\* Mutant: the closed receiver's Queue stays in _queues.
RemoveReceiverKeepsQueue(S, e) == BaseRemoveReceiver(S)

RemoveReceiver(S, e) ==
    IF mode = "broadcast"
    THEN [BaseRemoveReceiver(S) EXCEPT !.qkeys = @ \ {e}]
    ELSE BaseRemoveReceiver(S)

\* ------------------------------------------------------------- _QueueChannel
\* Mutant: send does not look at receivers_available.
QueueChannelSendUnchecked(S, t, copyable) ==
    IF copy_on_send /\ ~copyable THEN Raise(S, t, "TypeError")
    ELSE LET S1 == NewItem(S, t) IN QueuePut(S1, t, 0, S1.op[t].item)

\* Mutant: the buffer is built without maxsize=capacity.
BufferQueueUnbounded(cap) == NewQueue(0)

\* _QueueChannel.__init__: the buffer of a channel of the given capacity.
BufferQueue(cap) == NewQueue(cap)

QueueChannelSend(S, t, copyable) ==
    IF copy_on_send /\ ~copyable THEN Raise(S, t, "TypeError")
    ELSE IF ~S.receivers_available THEN Raise(S, t, "DisconnectedError")
    ELSE LET S1 == NewItem(S, t) IN QueuePut(S1, t, 0, S1.op[t].item)

\* Mutant: receive fails only when the buffer is empty as well.
QueueChannelReceiveDrains(S, t) ==
    IF ~S.senders_available /\ QueueEmpty(S.buffer)
    THEN Raise(S, t, "DisconnectedError")
    ELSE QueueGet(S, t, 0)

QueueChannelReceive(S, t) ==
    IF ~S.senders_available THEN Raise(S, t, "DisconnectedError")
    ELSE QueueGet(S, t, 0)

\* ------------------------------------------------------------- _BroadcastChannel
\* Mutant: the loop stops after the first queue of the snapshot.
PutAllFirstOnly(S, keys, item) ==
    IF keys = {} THEN S
    ELSE PutNowait(S, CHOOSE x \in keys : TRUE, item)

\* The loop over the snapshot of _queues.values(): put_nowait into each.
RECURSIVE PutAll(_, _, _)
PutAll(S, keys, item) ==
    IF keys = {} THEN S
    ELSE LET e == CHOOSE x \in keys : TRUE
         IN  PutAll(PutNowait(S, e, item), keys \ {e}, item)

\* Mutant: send waits, like a bounded put, while a receiver's Queue holds an
\* unreceived item.
BroadcastChannelSendBackpressure(S, t, copyable) ==
    IF copy_on_send /\ ~copyable THEN Raise(S, t, "TypeError")
    ELSE IF ~S.receivers_available THEN Raise(S, t, "DisconnectedError")
    ELSE LET S1 == NewItem(S, t)
             item == S1.op[t].item
         IN  IF \E e \in S1.qkeys : S1.queues[e].items # <<>>
             THEN [S1 EXCEPT !.pc[t] = "put"]
             ELSE ReturnSent(PutAll(S1, S1.qkeys, item), t)

\* Mutant: the value is found not to support copy only inside the loop, when
\* the copy for the second queue is due.
BroadcastChannelSendLateTypeError(S, t, copyable) ==
    IF ~S.receivers_available THEN Raise(S, t, "DisconnectedError")
    ELSE IF copy_on_send /\ ~copyable
    THEN Raise(PutAllFirstOnly(S, S.qkeys, S.nsends + 1), t, "TypeError")
    ELSE LET S1 == NewItem(S, t)
             item == S1.op[t].item
         IN  ReturnSent(PutAll(S1, S1.qkeys, item), t)

\* _BroadcastChannel.send
BroadcastChannelSend(S, t, copyable) ==
    IF copy_on_send /\ ~copyable THEN Raise(S, t, "TypeError")
    ELSE IF ~S.receivers_available THEN Raise(S, t, "DisconnectedError")
    ELSE LET S1 == NewItem(S, t)
             item == S1.op[t].item
         IN  ReturnSent(PutAll(S1, S1.qkeys, item), t)

BroadcastChannelReceive(S, t, e) ==
    IF ~S.senders_available THEN Raise(S, t, "DisconnectedError")
    ELSE IF e \notin S.qkeys THEN Raise(S, t, "KeyError")
    ELSE QueueGet(S, t, e)

\* ------------------------------------------------------------- _RendezvousChannel
\* Mutant: send returns after the wake-up loop, without waiting.
RendezvousChannelSendNoWait(S, t, copyable) ==
    IF copy_on_send /\ ~copyable THEN Raise(S, t, "TypeError")
    ELSE IF ~S.receivers_available THEN Raise(S, t, "DisconnectedError")
    ELSE LET S1 == NewItem(S, t)
             item == S1.op[t].item
             S2 == [S1 EXCEPT !.senders =
                        Append(@, [value |-> item,
                                   event |-> SenderEntryEvent(item),
                                   task |-> t])]
             w == WakeupNext(S2, S2.receivers)
         IN  ReturnSent(SetEvents([S2 EXCEPT !.receivers = w.rest], w.set), t)

\* Mutant: send appends its entry but wakes no pending receiver.
RendezvousChannelSendNoWake(S, t, copyable) ==
    IF copy_on_send /\ ~copyable THEN Raise(S, t, "TypeError")
    ELSE IF ~S.receivers_available THEN Raise(S, t, "DisconnectedError")
    ELSE LET S1 == NewItem(S, t)
             item == S1.op[t].item
         IN  [S1 EXCEPT !.senders = Append(@, [value |-> item,
                                               event |-> SenderEntryEvent(item),
                                               task |-> t]),
                        !.pc[t] = "rsend"]

\* send from the append to _senders up to `await event.wait()`: the entry holds
\* a second, new Event, not the one the sender then waits on.
RendezvousChannelSend(S, t, copyable) ==
    IF copy_on_send /\ ~copyable THEN Raise(S, t, "TypeError")
    ELSE IF ~S.receivers_available THEN Raise(S, t, "DisconnectedError")
    ELSE LET S1 == NewItem(S, t)
             item == S1.op[t].item
             S2 == [S1 EXCEPT !.senders =
                        Append(@, [value |-> item,
                                   event |-> SenderEntryEvent(item),
                                   task |-> t])]
             w == WakeupNext(S2, S2.receivers)
         IN  [SetEvents([S2 EXCEPT !.receivers = w.rest], w.set)
                 EXCEPT !.pc[t] = "rsend"]

\* Mutant: receive takes the first entry without testing sender_task.done().
PopSenderAny(S, entries) ==
    IF entries = <<>> THEN [found |-> FALSE, rest |-> <<>>]
    ELSE [found |-> TRUE, rest |-> Tail(entries), entry |-> Head(entries)]

\* The inner loop of receive: pop entries of _senders from the left up to and
\* including the first whose task is not done.
RECURSIVE PopSender(_, _)
PopSender(S, entries) ==
    IF entries = <<>> THEN [found |-> FALSE, rest |-> <<>>]
    ELSE IF ~TaskDone(S, Head(entries).task)
         THEN [found |-> TRUE, rest |-> Tail(entries), entry |-> Head(entries)]
         ELSE PopSender(S, Tail(entries))

\* One pass of the `while True` loop of receive, up to its return or its await.
RendezvousReceiveLoop(S, t) ==
    LET p == PopSender(S, S.senders) IN
    IF p.found
    THEN ReturnReceived(SetEvents([S EXCEPT !.senders = p.rest,
                                            !.op[t].item = p.entry.value],
                                  {p.entry.event}), t)
    ELSE [S EXCEPT !.senders = p.rest,
                   !.receivers = Append(@, [event |-> ReceiverEvent(t),
                                            task |-> t]),
                   !.pc[t] = "rrecv"]

RendezvousChannelReceive(S, t) ==
    IF ~S.senders_available THEN Raise(S, t, "DisconnectedError")
    ELSE RendezvousReceiveLoop(S, t)

\* ------------------------------------------------------------- Lock
\* `async with channel.lock` suspends the task even when the lock is free; a
\* free lock is taken at once, and the task runs on once it is scheduled.
LockAcquire(S, t) ==
    IF S.lock_holder = NoTask
    THEN [S EXCEPT !.lock_holder = t, !.pc[t] = "lock"]
    ELSE [S EXCEPT !.lock_waiters = Append(@, t), !.pc[t] = "lock"]

\* Lock.release hands the lock to the first task queued on it.
LockRelease(S) ==
    IF S.lock_waiters = <<>>
    THEN [S EXCEPT !.lock_holder = NoTask]
    ELSE [S EXCEPT !.lock_holder = Head(S.lock_waiters),
                   !.lock_waiters = Tail(@)]

\* ------------------------------------------------------------- endpoints
IsEndpoint(e, role) == e \in DOMAIN endpoints /\ endpoints[e].role = role

Opposite(role) == IF role = "Sender" THEN "Receiver" ELSE "Sender"

\* Mutant: _init does not test only_single_producer / only_single_consumer.
EndpointCreateUnrestricted(S, t, role, channel) ==
    LET new == Len(S.endpoints) + 1
        S1 == [S EXCEPT !.endpoints =
                   Append(@, [role |-> role, channel |-> channel])]
    IN  IF channel = NoneRef THEN Raise(S, t, "AttributeError")
        ELSE IF role = "Sender" THEN Return(AddSender(S1), t)
        ELSE Return(AddReceiver(S1, new), t)

\* Mutant: the channel is remembered from before the wait for the lock, so an
\* endpoint closed meanwhile still yields a new endpoint.
EndpointCreateFromClosed(S, t, role, channel) ==
    LET new == Len(S.endpoints) + 1
        S1 == [S EXCEPT !.endpoints =
                   Append(@, [role |-> role, channel |-> ChannelRef])]
    IN  IF role = "Sender"
        THEN IF only_single_producer /\ S.senders_available
             THEN Raise(S, t, "ValueError")
             ELSE Return(AddSender(S1), t)
        ELSE IF only_single_consumer /\ S.receivers_available
             THEN Raise(S, t, "ValueError")
             ELSE Return(AddReceiver(S1, new), t)

\* Mutant: the restriction is tested against the other role's signal.
EndpointCreateOtherSignal(S, t, role, channel) ==
    LET new == Len(S.endpoints) + 1
        S1 == [S EXCEPT !.endpoints =
                   Append(@, [role |-> role, channel |-> channel])]
    IN  IF channel = NoneRef THEN Raise(S, t, "AttributeError")
        ELSE IF role = "Sender"
        THEN IF only_single_producer /\ ~S.receivers_available
             THEN Raise(S, t, "ValueError")
             ELSE Return(AddSender(S1), t)
        ELSE IF only_single_consumer /\ ~S.senders_available
             THEN Raise(S, t, "ValueError")
             ELSE Return(AddReceiver(S1, new), t)

\* cls._create(channel) with Sender._init / Receiver._init, called by task t
\* inside the lock; the new endpoint is the next one of `endpoints`.
EndpointCreate(S, t, role, channel) ==
    LET new == Len(S.endpoints) + 1
        S1 == [S EXCEPT !.endpoints =
                   Append(@, [role |-> role, channel |-> channel])]
    IN  IF channel = NoneRef THEN Raise(S, t, "AttributeError")
        ELSE IF role = "Sender"
        THEN IF only_single_producer /\ S.senders_available
             THEN Raise(S, t, "ValueError")
             ELSE Return(AddSender(S1), t)
        ELSE IF only_single_consumer /\ S.receivers_available
             THEN Raise(S, t, "ValueError")
             ELSE Return(AddReceiver(S1, new), t)

\* Mutant: the body of close works on the channel remembered from before the
\* wait for the lock.
EndpointCloseRemembered(S, t, e) ==
    LET S1 == IF S.endpoints[e].role = "Sender"
              THEN RemoveSender(S) ELSE BaseRemoveReceiver(S)
    IN  Return([S1 EXCEPT !.endpoints[e].channel = NoneRef], t)

\* The body of close inside the lock, and the `self._channel = None` after it.
EndpointClose(S, t, e) ==
    IF S.endpoints[e].channel = NoneRef THEN Raise(S, t, "AttributeError")
    ELSE LET S1 == IF S.endpoints[e].role = "Sender"
                   THEN RemoveSender(S) ELSE RemoveReceiver(S, e)
         IN  Return([S1 EXCEPT !.endpoints[e].channel = NoneRef], t)

\* Sender.send
SenderSend(S, t, e, copyable) ==
    LET S1 == Begin(S, t, "send", e) IN
    IF S.endpoints[e].channel = NoneRef THEN Raise(S1, t, "ClosedError")
    ELSE CASE mode = "queue" -> QueueChannelSend(S1, t, copyable)
           [] mode = "broadcast" -> BroadcastChannelSend(S1, t, copyable)
           [] mode = "rendezvous" -> RendezvousChannelSend(S1, t, copyable)

\* Receiver.receive
ReceiverReceive(S, t, e) ==
    LET S1 == Begin(S, t, "receive", e) IN
    IF S.endpoints[e].channel = NoneRef THEN Raise(S1, t, "ClosedError")
    ELSE CASE mode = "queue" -> QueueChannelReceive(S1, t)
           [] mode = "broadcast" -> BroadcastChannelReceive(S1, t, e)
           [] mode = "rendezvous" -> RendezvousChannelReceive(S1, t)

\* Mutant: the wait starts without a look at the signal.
WaitForReceiversBlind(S, t, e) ==
    LET S1 == Begin(S, t, "wait_for_receivers", e) IN
    IF S.endpoints[e].channel = NoneRef THEN Raise(S1, t, "ClosedError")
    ELSE [S1 EXCEPT !.pc[t] = "wait"]

\* Sender.wait_for_receivers: the wait on receivers_available is over at
\* once when the signal is set, and the task runs on when it is scheduled.
WaitForReceivers(S, t, e) ==
    LET S1 == Begin(S, t, "wait_for_receivers", e) IN
    IF S.endpoints[e].channel = NoneRef THEN Raise(S1, t, "ClosedError")
    ELSE SetEvents([S1 EXCEPT !.pc[t] = "wait"],
                   IF S.receivers_available THEN {WaitEvent(t)} ELSE {})

\* Receiver.wait_for_senders
WaitForSenders(S, t, e) ==
    LET S1 == Begin(S, t, "wait_for_senders", e) IN
    IF S.endpoints[e].channel = NoneRef THEN Raise(S1, t, "ClosedError")
    ELSE SetEvents([S1 EXCEPT !.pc[t] = "wait"],
                   IF S.senders_available THEN {WaitEvent(t)} ELSE {})

\* Sender.send_eventually.  The call in progress stays send_eventually on
\* endpoint e while the send and wait_for_receivers it awaits run.
RECURSIVE SendEventuallyLoop(_, _, _, _)
RECURSIVE SendEventuallyAfterSend(_, _, _)

\* What follows `await self.send(value)` in the loop once the send has ended:
\* nothing after a send that returned, so the loop sends again;
\* wait_for_receivers after DisconnectedError; any other exception leaves the
\* call.  A send that is suspended stays where it is.  The model follows the
\* loop up to MaxSends values; beyond, the task is left inside it ("spin").
SendEventuallyAfterSend(R, t, e) ==
    IF R.pc[t] # "idle" THEN R
    ELSE IF R.res[t] = "ok"
    THEN LET R1 == [R EXCEPT !.nsuccess[t] = @ + 1, !.res[t] = "pending"] IN
         IF R1.nsends >= MaxSends THEN [R1 EXCEPT !.pc[t] = "spin"]
         ELSE SendEventuallyLoop(R1, t, e, TRUE)
    ELSE IF R.res[t] = "DisconnectedError"
    THEN [WaitForReceivers(R, t, e) EXCEPT !.op[t].kind = "send_eventually"]
    ELSE [R EXCEPT !.op[t].ep = 0]

\* One pass of `while True`: try: await self.send(value).
SendEventuallyLoop(S, t, e, copyable) ==
    SendEventuallyAfterSend(
        [SenderSend(S, t, e, copyable) EXCEPT !.op[t].kind = "send_eventually",
                                              !.op[t].ep = e], t, e)

\* The call of send_eventually.
SenderSendEventually(S, t, e, copyable) ==
    SendEventuallyLoop([S EXCEPT !.nsuccess[t] = 0], t, e, copyable)

\* Mutant: DisconnectedError is not caught.
ReceiveEventuallyAfterReceiveNoRetry(R, t, e) ==
    IF R.pc[t] # "idle" THEN R ELSE [R EXCEPT !.op[t].ep = 0]

\* Mutant: every exception of receive is caught and answered by waiting.
ReceiveEventuallyAfterReceiveCatchAll(R, t, e) ==
    IF R.pc[t] # "idle" THEN R
    ELSE IF R.res[t] # "ok"
    THEN SetEvents([R EXCEPT !.pc[t] = "wait", !.res[t] = "pending",
                             !.op[t].ep = e],
                   IF R.senders_available THEN {WaitEvent(t)} ELSE {})
    ELSE [R EXCEPT !.op[t].ep = 0]

\* Receiver.receive_eventually: one pass of `while True`:
\* try: return await self.receive(); except DisconnectedError: wait_for_senders.
ReceiveEventuallyAfterReceive(R, t, e) ==
    IF R.pc[t] # "idle" THEN R
    ELSE IF R.res[t] = "DisconnectedError"
    THEN [WaitForSenders(R, t, e) EXCEPT !.op[t].kind = "receive_eventually"]
    ELSE [R EXCEPT !.op[t].ep = 0]

ReceiverReceiveEventually(S, t, e) ==
    ReceiveEventuallyAfterReceive(
        [ReceiverReceive(S, t, e) EXCEPT !.op[t].kind = "receive_eventually",
                                         !.op[t].ep = e], t, e)

\* Mutant: same_channel compares the references only.
EndpointSameChannelUnchecked(self, other) == self.channel = other.channel

\* _Endpoint.same_channel on two endpoint objects.
EndpointSameChannel(self, other) ==
    IF self.channel = NoneRef \/ other.channel = NoneRef THEN FALSE
    ELSE self.channel = other.channel

\* The call of same_channel by task t: it returns at once, True or False.
SameChannelCall(S, t, self, other) ==
    [Begin(S, t, "same_channel", 0) EXCEPT
        !.res[t] = IF EndpointSameChannel(self, other) THEN "True" ELSE "False"]

\* Mutant: every exception of receive ends the iteration.
AnextAfterReceiveCatchAll(R, t) ==
    IF R.pc[t] = "idle" /\ R.res[t] # "ok"
    THEN [R EXCEPT !.res[t] = "StopAsyncIteration"]
    ELSE R

\* Receiver.__anext__ once its receive has ended:
\* except DisconnectedError as e: raise StopAsyncIteration from e.
AnextAfterReceive(R, t) ==
    IF R.pc[t] = "idle" /\ R.res[t] = "DisconnectedError"
    THEN [R EXCEPT !.res[t] = "StopAsyncIteration"]
    ELSE R

\* Receiver.__anext__: one step of `async for` (__aiter__ returns self).
ReceiverAnext(S, t, e) ==
    AnextAfterReceive([ReceiverReceive(S, t, e) EXCEPT !.op[t].kind = "__anext__"], t)

\* Mutant: derive does not test whether the endpoint is closed.
EndpointDeriveUnchecked(S, t, e) == LockAcquire(Begin(S, t, "derive", e), t)

\* _Endpoint.clone up to the lock acquisition
EndpointClone(S, t, e) ==
    LET S1 == Begin(S, t, "clone", e) IN
    IF S.endpoints[e].channel = NoneRef THEN Raise(S1, t, "ValueError")
    ELSE LockAcquire(S1, t)

\* Sender.derive_receiver / Receiver.derive_sender up to the lock acquisition
EndpointDerive(S, t, e) ==
    LET S1 == Begin(S, t, "derive", e) IN
    IF S.endpoints[e].channel = NoneRef THEN Raise(S1, t, "ClosedError")
    ELSE LockAcquire(S1, t)

\* Mutant: close does not test whether the endpoint is already closed.
EndpointCloseCallUnchecked(S, t, e) == LockAcquire(Begin(S, t, "close", e), t)

\* Mutant: close removes the endpoint without taking the lock.
EndpointCloseCallUnlocked(S, t, e) ==
    LET S1 == Begin(S, t, "close", e) IN
    IF S.endpoints[e].channel = NoneRef THEN Return(S1, t)
    ELSE EndpointClose(S1, t, e)

\* Sender.close / Receiver.close up to the lock acquisition
EndpointCloseCall(S, t, e) ==
    LET S1 == Begin(S, t, "close", e) IN
    IF S.endpoints[e].channel = NoneRef THEN Return(S1, t)
    ELSE LockAcquire(S1, t)

\* _Endpoint.__aenter__ returns self: task t is inside the `async with` block
\* on endpoint e, suspended at an await of the block's body.
ScopeEnter(S, t, e) == [Begin(S, t, "async with", e) EXCEPT !.pc[t] = "scope"]

\* The ways the block is left: its body completes, raises, or the task is
\* cancelled at the await.
AexitKinds == {"__aexit__", "__aexit__(error)", "__aexit__(cancel)"}

\* The `await self.close()` of __aexit__ has ended: __aexit__ returns None, so
\* the block's own exception goes on to the caller; an exception of close
\* replaces it.  op[t].ep keeps the endpoint of the block.
AfterAexitClose(R, t, e) ==
    LET R1 == [R EXCEPT !.op[t].ep = e] IN
    IF R.res[t] # "ok" THEN R1
    ELSE CASE R.op[t].kind = "__aexit__" -> R1
           [] R.op[t].kind = "__aexit__(error)" -> [R1 EXCEPT !.res[t] = "BodyError"]
           [] R.op[t].kind = "__aexit__(cancel)" ->
                 [R1 EXCEPT !.pc[t] = "done", !.res[t] = "CancelledError"]

\* _Endpoint.__aexit__: await self.close(), up to the lock acquisition.
EndpointAexit(S, t, kind) ==
    LET e == S.op[t].ep
        S1 == [S EXCEPT !.op[t].kind = kind, !.res[t] = "pending"]
    IN  IF S.endpoints[e].channel = NoneRef
        THEN AfterAexitClose(Return(S1, t), t, e)
        ELSE LockAcquire(S1, t)

\* The task is cancelled inside the block: __aexit__ runs while the
\* cancellation is delivered.  close of an open endpoint has to await the
\* lock there; the scheduler either ends the task at that await, with the
\* endpoint still open (waits = FALSE), or lets it wait for the lock.
EndpointAexitCancelled(S, t, waits) ==
    LET e == S.op[t].ep
        S1 == [S EXCEPT !.ncancels = @ + 1]
    IN  IF S.endpoints[e].channel = NoneRef \/ waits
        THEN EndpointAexit(S1, t, "__aexit__(cancel)")
        ELSE [S1 EXCEPT !.op[t].kind = "__aexit__(cancel)",
                        !.pc[t] = "done", !.res[t] = "RuntimeError"]

\* Mutant: derive creates an endpoint of the role it was called on.
InsideLockDeriveSameRole(S, t) ==
    LET e == S.op[t].ep
        kind == S.op[t].kind
        role == S.endpoints[e].role
        channel == S.endpoints[e].channel
    IN  LockRelease(
          CASE kind = "clone" -> EndpointCreate(S, t, role, channel)
            [] kind = "derive" -> EndpointCreate(S, t, role, channel)
            [] kind = "close" -> EndpointClose(S, t, e))

\* What the task does once it runs with the lock: the body of the
\* `async with`, then the release, then the rest of the method.
InsideLock(S, t) ==
    LET e == S.op[t].ep
        kind == S.op[t].kind
        role == S.endpoints[e].role
        channel == S.endpoints[e].channel
    IN  LockRelease(
          CASE kind = "clone" -> EndpointCreate(S, t, role, channel)
            [] kind = "derive" -> EndpointCreate(S, t, Opposite(role), channel)
            [] kind = "close" -> EndpointClose(S, t, e)
            [] kind \in AexitKinds -> AfterAexitClose(EndpointClose(S, t, e), t, e))

\* The Event a suspended task waits on.
AwaitedEvent(S, t) ==
    CASE S.pc[t] = "put" -> PutEvent(t)
      [] S.pc[t] = "get" -> GetEvent(t)
      [] S.pc[t] = "rrecv" -> ReceiverEvent(t)
      [] S.pc[t] = "rsend" -> SenderEvent(S.op[t].item)
      [] S.pc[t] = "wait" -> WaitEvent(t)

\* The task runs on after its Event was set.
AfterWait(S, t) ==
    LET S1 == [S EXCEPT !.events = @ \ {AwaitedEvent(S, t)}]
        e == S.op[t].ep
        kind == S.op[t].kind
        R == CASE S.pc[t] = "put" -> QueuePut(S1, t, 0, S.op[t].item)
               [] S.pc[t] = "get" ->
                     QueueGet(S1, t, IF mode = "broadcast" THEN e ELSE 0)
               [] S.pc[t] = "rrecv" -> RendezvousReceiveLoop(S1, t)
               [] S.pc[t] = "rsend" -> ReturnSent(S1, t)
               [] S.pc[t] = "wait" -> Return(S1, t)
    IN  CASE kind = "send_eventually" ->
               IF S.pc[t] = "wait" THEN SendEventuallyLoop(S1, t, e, TRUE)
               ELSE SendEventuallyAfterSend([R EXCEPT !.op[t].ep = e], t, e)
          [] kind = "receive_eventually" ->
               IF S.pc[t] = "wait" THEN ReceiverReceiveEventually(S1, t, e)
               ELSE ReceiveEventuallyAfterReceive([R EXCEPT !.op[t].ep = e], t, e)
          [] kind = "__anext__" -> AnextAfterReceive(R, t)
          [] OTHER -> R

Suspended(S, t) == S.pc[t] \in {"put", "get", "rrecv", "rsend", "wait"}

\* Number of clone/derive calls waiting to create an endpoint.
PendingCreates ==
    Cardinality({t \in Tasks : pc[t] = "lock" /\ op[t].kind \in {"clone", "derive"}})

\* ------------------------------------------------------------- actions
Send(t, e, copyable) ==
    /\ pc[t] = "idle"
    /\ IsEndpoint(e, "Sender")
    /\ SenderSend(State, t, e, copyable).nsends <= MaxSends
    /\ Apply(SenderSend(State, t, e, copyable))

Receive(t, e) ==
    /\ pc[t] = "idle"
    /\ IsEndpoint(e, "Receiver")
    /\ Apply(ReceiverReceive(State, t, e))

Clone(t, e) ==
    /\ pc[t] = "idle"
    /\ e \in DOMAIN endpoints
    /\ Len(endpoints) + PendingCreates < MaxEndpoints
    /\ Apply(EndpointClone(State, t, e))

Derive(t, e) ==
    /\ pc[t] = "idle"
    /\ e \in DOMAIN endpoints
    /\ Len(endpoints) + PendingCreates < MaxEndpoints
    /\ Apply(EndpointDerive(State, t, e))

Close(t, e) ==
    /\ pc[t] = "idle"
    /\ e \in DOMAIN endpoints
    /\ Apply(EndpointCloseCall(State, t, e))

WaitFor(t, e) ==
    /\ pc[t] = "idle"
    /\ e \in DOMAIN endpoints
    /\ Apply(IF endpoints[e].role = "Sender"
             THEN WaitForReceivers(State, t, e)
             ELSE WaitForSenders(State, t, e))

SendEventually(t, e, copyable) ==
    /\ pc[t] = "idle"
    /\ IsEndpoint(e, "Sender")
    /\ SenderSendEventually(State, t, e, copyable).nsends <= MaxSends
    /\ Apply(SenderSendEventually(State, t, e, copyable))

ReceiveEventually(t, e) ==
    /\ pc[t] = "idle"
    /\ IsEndpoint(e, "Receiver")
    /\ Apply(ReceiverReceiveEventually(State, t, e))

Anext(t, e) ==
    /\ pc[t] = "idle"
    /\ IsEndpoint(e, "Receiver")
    /\ Apply(ReceiverAnext(State, t, e))

SameChannel(t, e, other) ==
    /\ pc[t] = "idle"
    /\ e \in DOMAIN endpoints
    /\ Apply(SameChannelCall(State, t, endpoints[e], other))

\* `async with endpoint:` is entered.
Enter(t, e) ==
    /\ pc[t] = "idle"
    /\ e \in DOMAIN endpoints
    /\ Apply(ScopeEnter(State, t, e))

\* The body of the block completes (failed = FALSE) or raises.
Exit(t, failed) ==
    /\ pc[t] = "scope"
    /\ Apply(EndpointAexit(State, t,
                           IF failed THEN "__aexit__(error)" ELSE "__aexit__"))

\* The task is cancelled while it is inside the block.
CancelInScope(t, waits) ==
    /\ pc[t] = "scope"
    /\ ncancels < MaxCancels
    /\ Apply(EndpointAexitCancelled(State, t, waits))

\* The scheduler resumes a task that holds the lock.
RunLocked(t) ==
    /\ pc[t] = "lock"
    /\ lock_holder = t
    /\ Apply(InsideLock(State, t))

\* The scheduler resumes a task whose Event was set.
Resume(t) ==
    /\ Suspended(State, t)
    /\ AwaitedEvent(State, t) \in events
    /\ Apply(AfterWait(State, t))

\* A task suspended in send or receive is cancelled from outside.
Cancel(t) ==
    /\ Suspended(State, t)
    /\ ncancels < MaxCancels
    /\ Apply([State EXCEPT !.pc[t] = "done", !.res[t] = "CancelledError",
                           !.ncancels = @ + 1])

\* ------------------------------------------------------------- create
\* Mutant: capacity 0 is tested before broadcast.
SelectModeCapacityFirst(cap, broadcast) ==
    IF cap = 0 THEN "rendezvous"
    ELSE IF broadcast THEN "broadcast"
    ELSE IF cap < 1 THEN "ValueError"
    ELSE "queue"

\* Mutant: _QueueChannel.__init__ accepts any capacity.
SelectModeUnvalidated(cap, broadcast) ==
    IF broadcast THEN "broadcast"
    ELSE IF cap = 0 THEN "rendezvous"
    ELSE "queue"

\* The channel class create instantiates, or the exception raised by
\* _QueueChannel.__init__ for a capacity below 1.
SelectMode(cap, broadcast) ==
    IF broadcast THEN "broadcast"
    ELSE IF cap = 0 THEN "rendezvous"
    ELSE IF cap < 1 THEN "ValueError"
    ELSE "queue"

\* The state create(capacity, broadcast, copy_on_send, only_single_producer,
\* only_single_consumer) returns: endpoint 1 is the Sender, 2 the Receiver.
Create(cap, broadcast, cos, osp, osc) ==
    /\ args = [capacity |-> cap, broadcast |-> broadcast, copy_on_send |-> cos,
               only_single_producer |-> osp, only_single_consumer |-> osc]
    /\ mode = SelectMode(cap, broadcast)
    /\ capacity = (IF mode = "queue" THEN cap ELSE 0)
    /\ copy_on_send = cos
    /\ only_single_producer = osp
    /\ only_single_consumer = osc
    /\ open_senders = 1
    /\ open_receivers = 1
    /\ senders_available = TRUE
    /\ receivers_available = TRUE
    /\ lock_holder = NoTask
    /\ lock_waiters = <<>>
    /\ buffer = (IF mode = "queue" THEN BufferQueue(cap) ELSE NewQueue(0))
    /\ queues = [e \in (IF broadcast THEN {2} ELSE {}) |-> NewQueue(0)]
    /\ qkeys = (IF broadcast THEN {2} ELSE {})
    /\ senders = <<>>
    /\ receivers = <<>>
    /\ events = {}
    /\ endpoints = <<[role |-> "Sender", channel |-> ChannelRef],
                     [role |-> "Receiver", channel |-> ChannelRef]>>
    /\ pc = [t \in Tasks |-> "idle"]
    /\ op = [t \in Tasks |-> [kind |-> "none", ep |-> 0, item |-> NoItem]]
    /\ res = [t \in Tasks |-> "none"]
    /\ nsends = 0
    /\ ncancels = 0
    /\ sentLog = <<>>
    /\ recvLog = <<>>
    /\ delivered = [e \in (IF broadcast THEN {2} ELSE {}) |-> <<>>]
    /\ nsuccess = [t \in Tasks |-> 0]

\* create raises ValueError to its caller (task 1): no channel and no endpoint
\* exists.
CreateFails(cap, broadcast, cos, osp, osc) ==
    /\ args = [capacity |-> cap, broadcast |-> broadcast, copy_on_send |-> cos,
               only_single_producer |-> osp, only_single_consumer |-> osc]
    /\ mode = "none"
    /\ capacity = 0
    /\ copy_on_send = cos
    /\ only_single_producer = osp
    /\ only_single_consumer = osc
    /\ open_senders = 0
    /\ open_receivers = 0
    /\ senders_available = FALSE
    /\ receivers_available = FALSE
    /\ lock_holder = NoTask
    /\ lock_waiters = <<>>
    /\ buffer = NewQueue(0)
    /\ queues = <<>>
    /\ qkeys = {}
    /\ senders = <<>>
    /\ receivers = <<>>
    /\ events = {}
    /\ endpoints = <<>>
    /\ pc = [t \in Tasks |-> "idle"]
    /\ op = [t \in Tasks |-> [kind |-> IF t = 1 THEN "create" ELSE "none",
                               ep |-> 0, item |-> NoItem]]
    /\ res = [t \in Tasks |-> IF t = 1 THEN "ValueError" ELSE "none"]
    /\ nsends = 0
    /\ ncancels = 0
    /\ sentLog = <<>>
    /\ recvLog = <<>>
    /\ delivered = <<>>
    /\ nsuccess = [t \in Tasks |-> 0]

\* A call of create with any arguments.
CreateCall(cap, broadcast, cos, osp, osc) ==
    IF SelectMode(cap, broadcast) = "ValueError"
    THEN CreateFails(cap, broadcast, cos, osp, osc)
    ELSE Create(cap, broadcast, cos, osp, osc)

Endpoints == 1..MaxEndpoints

\* ------------------------------------------------------------- queue channel
InitQueue == \E cap \in 1..MaxCapacity : Create(cap, FALSE, FALSE, FALSE, FALSE)

NextQueue ==
    \/ \E t \in Callers, e \in Endpoints, copyable \in BOOLEAN : Send(t, e, copyable)
    \/ \E t \in Callers, e \in Endpoints : Receive(t, e)
    \/ \E t \in Callers, e \in Endpoints : Clone(t, e)
    \/ \E t \in Callers, e \in Endpoints : Derive(t, e)
    \/ \E t \in Callers, e \in Endpoints : Close(t, e)
    \/ \E t \in Callers : RunLocked(t)
    \/ \E t \in Callers : Resume(t)
    \/ \E t \in Callers : Cancel(t)

SpecQueue == InitQueue /\ [][NextQueue]_vars

\* The channel as create returns it, its two endpoints shared by the tasks, no
\* task cancelled, and with the scheduler's guarantee: a task that holds the
\* lock, or whose Event is set, is run.
NextFairQueue ==
    \/ \E t \in Callers, e \in Endpoints, copyable \in BOOLEAN : Send(t, e, copyable)
    \/ \E t \in Callers, e \in Endpoints : Receive(t, e)
    \/ \E t \in Callers, e \in Endpoints : Close(t, e)
    \/ \E t \in Callers : RunLocked(t)
    \/ \E t \in Callers : Resume(t)

FairQueue ==
    /\ InitQueue
    /\ [][NextFairQueue]_vars
    /\ \A t \in Callers : WF_vars(RunLocked(t)) /\ WF_vars(Resume(t))

\* ------------------------------------------------------------- rendezvous channel
InitRendezvous == Create(0, FALSE, FALSE, FALSE, FALSE)

NextRendezvous ==
    \/ \E t \in Tasks, e \in Endpoints, copyable \in BOOLEAN : Send(t, e, copyable)
    \/ \E t \in Tasks, e \in Endpoints : Receive(t, e)
    \/ \E t \in Tasks, e \in Endpoints : Clone(t, e)
    \/ \E t \in Tasks, e \in Endpoints : Derive(t, e)
    \/ \E t \in Tasks, e \in Endpoints : Close(t, e)
    \/ \E t \in Tasks : RunLocked(t)
    \/ \E t \in Tasks : Resume(t)
    \/ \E t \in Tasks : Cancel(t)

SpecRendezvous == InitRendezvous /\ [][NextRendezvous]_vars

\* The channel as create returns it, its two endpoints shared by the tasks, no
\* task cancelled, and with the scheduler's guarantee: a task that holds the
\* lock, or whose Event is set, is run.
NextFairRendezvous ==
    \/ \E t \in Tasks, e \in Endpoints, copyable \in BOOLEAN : Send(t, e, copyable)
    \/ \E t \in Tasks, e \in Endpoints : Receive(t, e)
    \/ \E t \in Tasks, e \in Endpoints : Close(t, e)
    \/ \E t \in Tasks : RunLocked(t)
    \/ \E t \in Tasks : Resume(t)

FairRendezvous ==
    /\ InitRendezvous
    /\ [][NextFairRendezvous]_vars
    /\ \A t \in Tasks : WF_vars(RunLocked(t)) /\ WF_vars(Resume(t))

\* The same with tasks cancelled from outside while they are suspended.
NextFairCancelRendezvous ==
    \/ \E t \in Tasks, e \in Endpoints, copyable \in BOOLEAN : Send(t, e, copyable)
    \/ \E t \in Tasks, e \in Endpoints : Receive(t, e)
    \/ \E t \in Tasks, e \in Endpoints : Close(t, e)
    \/ \E t \in Tasks : RunLocked(t)
    \/ \E t \in Tasks : Resume(t)
    \/ \E t \in Tasks : Cancel(t)

FairCancelRendezvous ==
    /\ InitRendezvous
    /\ [][NextFairCancelRendezvous]_vars
    /\ \A t \in Tasks : WF_vars(RunLocked(t)) /\ WF_vars(Resume(t))

\* ------------------------------------------------------------- broadcast channel
InitBroadcast == \E cos \in BOOLEAN : Create(0, TRUE, cos, FALSE, FALSE)

NextBroadcast ==
    \/ \E t \in Callers, e \in Endpoints, copyable \in BOOLEAN : Send(t, e, copyable)
    \/ \E t \in Callers, e \in Endpoints : Receive(t, e)
    \/ \E t \in Callers, e \in Endpoints : Clone(t, e)
    \/ \E t \in Callers, e \in Endpoints : Derive(t, e)
    \/ \E t \in Callers, e \in Endpoints : Close(t, e)
    \/ \E t \in Callers : RunLocked(t)
    \/ \E t \in Callers : Resume(t)
    \/ \E t \in Callers : Cancel(t)

SpecBroadcast == InitBroadcast /\ [][NextBroadcast]_vars

\* ------------------------------------------------------------- any channel
\* Every mode create can select, with and without copy_on_send; the two
\* endpoints create returns are shared by the calling tasks.
InitAnyMode ==
    \E cap \in 0..MaxCapacity, broadcast \in BOOLEAN, cos \in BOOLEAN :
        /\ broadcast => cap = 0
        /\ Create(cap, broadcast, cos, FALSE, FALSE)

NextAnyMode ==
    \/ \E t \in Callers, e \in Endpoints, copyable \in BOOLEAN : Send(t, e, copyable)
    \/ \E t \in Callers, e \in Endpoints : Receive(t, e)
    \/ \E t \in Callers, e \in Endpoints : Close(t, e)
    \/ \E t \in Callers : RunLocked(t)
    \/ \E t \in Callers : Resume(t)

SpecAnyMode == InitAnyMode /\ [][NextAnyMode]_vars

\* Every mode with copy_on_send enabled, with every operation of the two
\* endpoints create returns and of the endpoints derived from them.
InitCopyOnSend ==
    \E cap \in {0, MaxCapacity}, broadcast \in BOOLEAN :
        /\ broadcast => cap = 0
        /\ Create(cap, broadcast, TRUE, FALSE, FALSE)

NextEndpointOps ==
    \/ \E t \in Callers, e \in Endpoints, copyable \in BOOLEAN : Send(t, e, copyable)
    \/ \E t \in Callers, e \in Endpoints : Receive(t, e)
    \/ \E t \in Callers, e \in Endpoints : WaitFor(t, e)
    \/ \E t \in Callers, e \in Endpoints : Derive(t, e)
    \/ \E t \in Callers, e \in Endpoints : Close(t, e)
    \/ \E t \in Callers : RunLocked(t)
    \/ \E t \in Callers : Resume(t)

SpecEndpointOps == InitCopyOnSend /\ [][NextEndpointOps]_vars

\* ------------------------------------------------------------- create, any arguments
\* create called with every capacity from negative to positive, with and
\* without broadcast; the endpoints it returns are then used by the tasks.
InitCreate ==
    \E cap \in (0 - MaxCapacity)..MaxCapacity, broadcast \in BOOLEAN :
        CreateCall(cap, broadcast, FALSE, FALSE, FALSE)

NextCreate ==
    \/ \E t \in Callers, e \in Endpoints, copyable \in BOOLEAN : Send(t, e, copyable)
    \/ \E t \in Callers, e \in Endpoints : Receive(t, e)
    \/ \E t \in Callers, e \in Endpoints : Close(t, e)
    \/ \E t \in Callers : RunLocked(t)
    \/ \E t \in Callers : Resume(t)

SpecCreate == InitCreate /\ [][NextCreate]_vars

\* ------------------------------------------------------------- endpoint lifecycle
\* Every channel create can build, with and without the single-producer and
\* single-consumer restrictions; the tasks clone, derive and close endpoints.
InitLifecycle ==
    \E cap \in 0..MaxCapacity, broadcast \in BOOLEAN, osp \in BOOLEAN, osc \in BOOLEAN :
        /\ broadcast => cap = 0
        /\ Create(cap, broadcast, FALSE, osp, osc)

NextLifecycle ==
    \/ \E t \in Tasks, e \in Endpoints : Clone(t, e)
    \/ \E t \in Tasks, e \in Endpoints : Derive(t, e)
    \/ \E t \in Tasks, e \in Endpoints : Close(t, e)
    \/ \E t \in Tasks : RunLocked(t)

SpecLifecycle == InitLifecycle /\ [][NextLifecycle]_vars

\* ------------------------------------------------------------- eventually
\* send_eventually / receive_eventually in every mode, with endpoints derived
\* and closed while the calls wait.
InitEventually ==
    \E cos \in BOOLEAN :
        \/ \E cap \in {0, 1} : Create(cap, FALSE, cos, FALSE, FALSE)
        \/ Create(0, TRUE, cos, FALSE, FALSE)

NextEventually ==
    \/ \E t \in Callers, e \in Endpoints, copyable \in BOOLEAN :
           SendEventually(t, e, copyable)
    \/ \E t \in Callers, e \in Endpoints : ReceiveEventually(t, e)
    \/ \E t \in Tasks, e \in Endpoints : Derive(t, e)
    \/ \E t \in Tasks, e \in Endpoints : Close(t, e)
    \/ \E t \in Tasks : RunLocked(t)
    \/ \E t \in Callers : Resume(t)

SpecEventually == InitEventually /\ [][NextEventually]_vars

\* receive_eventually against plain sends; the scheduler runs every task that
\* is ready (holds the lock, or waits on an Event that was set).
NextFairEventually ==
    \/ \E t \in Callers, e \in Endpoints : ReceiveEventually(t, e)
    \/ \E t \in Callers, e \in Endpoints, copyable \in BOOLEAN : Send(t, e, copyable)
    \/ \E t \in Callers, e \in Endpoints : Derive(t, e)
    \/ \E t \in Callers, e \in Endpoints : Close(t, e)
    \/ \E t \in Callers : RunLocked(t)
    \/ \E t \in Callers : Resume(t)

InitEachMode ==
    \/ \E cap \in {0, 1} : Create(cap, FALSE, FALSE, FALSE, FALSE)
    \/ Create(0, TRUE, FALSE, FALSE, FALSE)

FairEventually ==
    /\ InitEachMode
    /\ [][NextFairEventually]_vars
    /\ \A t \in Callers : WF_vars(RunLocked(t)) /\ WF_vars(Resume(t))

\* ------------------------------------------------------------- wait_for_*
\* wait_for_receivers / wait_for_senders while endpoints are derived and
\* closed; the scheduler runs every task that is ready.
NextFairWait ==
    \/ \E t \in Callers, e \in Endpoints : WaitFor(t, e)
    \/ \E t \in Callers, e \in Endpoints : Derive(t, e)
    \/ \E t \in Callers, e \in Endpoints : Close(t, e)
    \/ \E t \in Callers : RunLocked(t)
    \/ \E t \in Callers : Resume(t)

FairWait ==
    /\ InitEachMode
    /\ [][NextFairWait]_vars
    /\ \A t \in Callers : WF_vars(RunLocked(t)) /\ WF_vars(Resume(t))

\* ------------------------------------------------------------- iteration
\* `async for` over a Receiver while values are sent and endpoints closed.
NextIterate ==
    \/ \E t \in Callers, e \in Endpoints : Anext(t, e)
    \/ \E t \in Callers, e \in Endpoints, copyable \in BOOLEAN : Send(t, e, copyable)
    \/ \E t \in Tasks, e \in Endpoints : Close(t, e)
    \/ \E t \in Tasks : RunLocked(t)
    \/ \E t \in Callers : Resume(t)

SpecIterate == InitEachMode /\ [][NextIterate]_vars

\* ------------------------------------------------------------- same_channel
\* The endpoints returned by another create call, open or closed.
OtherEndpoints ==
    [role : {"Sender", "Receiver"}, channel : {OtherChannelRef, NoneRef}]

\* same_channel between the endpoints of this channel, and with those of
\* another one, while endpoints are cloned, derived and closed.
NextSameChannel ==
    \/ \E t \in Callers, e \in Endpoints :
          \E other \in {endpoints[b] : b \in DOMAIN endpoints} \cup OtherEndpoints :
              SameChannel(t, e, other)
    \/ \E t \in Callers, e \in Endpoints : Clone(t, e)
    \/ \E t \in Callers, e \in Endpoints : Derive(t, e)
    \/ \E t \in Callers, e \in Endpoints : Close(t, e)
    \/ \E t \in Callers : RunLocked(t)

SpecSameChannel == InitEachMode /\ [][NextSameChannel]_vars

\* ------------------------------------------------------------- create as a step
\* Before create is called: its arguments are chosen, there is no channel, no
\* endpoint and no lock yet.
BeforeCreate(cap, broadcast, cos, osp, osc) ==
    /\ args = [capacity |-> cap, broadcast |-> broadcast, copy_on_send |-> cos,
               only_single_producer |-> osp, only_single_consumer |-> osc]
    /\ mode = "none"
    /\ capacity = 0
    /\ copy_on_send = cos
    /\ only_single_producer = osp
    /\ only_single_consumer = osc
    /\ open_senders = 0
    /\ open_receivers = 0
    /\ senders_available = FALSE
    /\ receivers_available = FALSE
    /\ lock_holder = NoTask
    /\ lock_waiters = <<>>
    /\ buffer = NewQueue(0)
    /\ queues = <<>>
    /\ qkeys = {}
    /\ senders = <<>>
    /\ receivers = <<>>
    /\ events = {}
    /\ endpoints = <<>>
    /\ pc = [t \in Tasks |-> "idle"]
    /\ op = [t \in Tasks |-> [kind |-> "none", ep |-> 0, item |-> NoItem]]
    /\ res = [t \in Tasks |-> "none"]
    /\ nsends = 0
    /\ ncancels = 0
    /\ sentLog = <<>>
    /\ recvLog = <<>>
    /\ delivered = <<>>
    /\ nsuccess = [t \in Tasks |-> 0]

\* create runs, from `common_kwargs = ...` to its return: a plain function,
\* it has no suspension point and never touches channel.lock.
CreateStep ==
    /\ mode = "none"
    /\ endpoints = <<>>
    /\ mode' = SelectMode(args.capacity, args.broadcast)
    /\ capacity' = (IF mode' = "queue" THEN args.capacity ELSE 0)
    /\ UNCHANGED <<args, copy_on_send, only_single_producer, only_single_consumer>>
    /\ open_senders' = open_senders + 1
    /\ open_receivers' = open_receivers + 1
    /\ senders_available' = TRUE
    /\ receivers_available' = TRUE
    /\ buffer' = (IF mode' = "queue" THEN BufferQueue(args.capacity) ELSE NewQueue(0))
    /\ queues' = [e \in (IF args.broadcast THEN {2} ELSE {}) |-> NewQueue(0)]
    /\ qkeys' = (IF args.broadcast THEN {2} ELSE {})
    /\ delivered' = [e \in (IF args.broadcast THEN {2} ELSE {}) |-> <<>>]
    /\ endpoints' = <<[role |-> "Sender", channel |-> ChannelRef],
                      [role |-> "Receiver", channel |-> ChannelRef]>>
    /\ UNCHANGED <<lock_holder, lock_waiters, senders, receivers, events, pc, op,
                   res, nsends, ncancels, sentLog, recvLog, nsuccess>>

InitFromCreate ==
    \E broadcast, osp, osc \in BOOLEAN :
        \E cap \in (IF broadcast THEN {0} ELSE 0..1) :
            BeforeCreate(cap, broadcast, FALSE, osp, osc)

NextFromCreate ==
    \/ CreateStep
    \/ \E t \in Tasks, e \in Endpoints : Clone(t, e)
    \/ \E t \in Tasks, e \in Endpoints : Derive(t, e)
    \/ \E t \in Tasks, e \in Endpoints : Close(t, e)
    \/ \E t \in Tasks : RunLocked(t)

SpecFromCreate == InitFromCreate /\ [][NextFromCreate]_vars

\* ------------------------------------------------------------- async with
\* Endpoints used in `async with` blocks that end normally, by an error or by
\* cancellation, while other tasks close endpoints.
NextScope ==
    \/ \E t \in Callers, e \in Endpoints : Enter(t, e)
    \/ \E t \in Callers, failed \in BOOLEAN : Exit(t, failed)
    \/ \E t \in Callers, waits \in BOOLEAN : CancelInScope(t, waits)
    \/ \E t \in Tasks, e \in Endpoints : Close(t, e)
    \/ \E t \in Tasks : RunLocked(t)

SpecScope == InitEachMode /\ [][NextScope]_vars

\* ------------------------------------------------------------- properties
Range(seq) == {seq[i] : i \in DOMAIN seq}

IsPrefix(a, b) == Len(a) <= Len(b) /\ a = SubSeq(b, 1, Len(a))

NoDuplicates(seq) == \A i, j \in DOMAIN seq : seq[i] = seq[j] => i = j

SenderEndpoints == {e \in DOMAIN endpoints : endpoints[e].role = "Sender"}
ReceiverEndpoints == {e \in DOMAIN endpoints : endpoints[e].role = "Receiver"}

\* C1: a queue channel of capacity N never holds more than N items in its
\* shared buffer, whatever the interleaving of send, receive, clone and close.
C1_BufferWithinCapacity ==
    mode = "queue" => Len(buffer.items) <= capacity

\* C1 witness: the buffer is full and a further send is suspended on it.
C1_Witness ==
    /\ mode = "queue"
    /\ Len(buffer.items) = capacity
    /\ \E t \in Tasks : pc[t] = "put"

\* C4: with a single sender, the values receive calls return, in the order the
\* receives complete, are a prefix of the values in the order the sends
\* completed.
C4_Fifo ==
    (mode = "queue" /\ Cardinality(SenderEndpoints) = 1)
        => IsPrefix(recvLog, sentLog)

\* C4 witness: one sender, and two values have been received after both were
\* in the buffer together.
C4_Witness ==
    /\ mode = "queue"
    /\ Cardinality(SenderEndpoints) = 1
    /\ Len(recvLog) >= 2
    /\ capacity >= 2

\* C5: with cloned senders and receivers, every sent value is returned by at
\* most one receive, only sent values are returned, and once as many receives
\* as sends have completed the received values are exactly the sent ones.
C5_ExactlyOnce ==
    mode = "queue" =>
        /\ NoDuplicates(recvLog)
        /\ Range(recvLog) \subseteq Range(sentLog)
        /\ Len(recvLog) = Len(sentLog) => Range(recvLog) = Range(sentLog)

\* C5 witness: several senders and receivers exist, and all of at least two
\* sent values have been received.
C5_Witness ==
    /\ mode = "queue"
    /\ Len(endpoints) > 2
    /\ Len(recvLog) >= 2
    /\ Len(recvLog) = Len(sentLog)

Items == 1..MaxSends

SendReturned(t) == pc[t] = "idle" /\ op[t].kind = "send" /\ res[t] = "ok"

ReceiveReturned(t) == pc[t] = "idle" /\ op[t].kind = "receive" /\ res[t] = "ok"

Failed(t, kind, exc) == pc[t] = "idle" /\ op[t].kind = kind /\ res[t] = exc

\* A send suspended on the full buffer neither returns nor enqueues its value
\* in a step that starts with the buffer full.
SuspendedSendStays ==
    [][\A t \in Tasks :
          (pc[t] = "put" /\ QueueFull(buffer))
              => (pc'[t] = "put" /\ op[t].item \notin Range(buffer'.items))]_vars

\* A step that makes room in the full buffer sets the Event of the send at the
\* head of the wait list.
RoomWakesFirstSend ==
    [][(QueueFull(buffer) /\ ~QueueFull(buffer') /\ buffer.putters # <<>>)
          => Head(buffer.putters).event \in events']_vars

\* C2 as stated: a send suspended on the full buffer stays suspended while the
\* buffer stays full, and once a receive has removed an item (the send's Event
\* is set) it eventually enqueues its value and returns without error.
C2_SuspendedSendCompletes ==
    /\ SuspendedSendStays
    /\ \A t \in Tasks :
          (pc[t] = "put" /\ PutEvent(t) \in events) ~> SendReturned(t)

\* C2 amended: a send suspended on the full buffer stays suspended while the
\* buffer stays full; a receive that makes room wakes the first suspended send,
\* which then either enqueues its value and returns without error or, when
\* another send has filled the buffer again before it ran, suspends again.
C2_WokenSendCompletesOrResuspends ==
    /\ SuspendedSendStays
    /\ RoomWakesFirstSend
    /\ \A t \in Tasks :
          (pc[t] = "put" /\ PutEvent(t) \in events)
              ~> \/ SendReturned(t)
                 \/ pc[t] = "put" /\ PutEvent(t) \notin events /\ QueueFull(buffer)

\* C2 witness: a suspended send has been woken by a receive that made room.
C2_Witness ==
    \E t \in Tasks :
        /\ pc[t] = "put"
        /\ PutEvent(t) \in events
        /\ ~QueueFull(buffer)
        /\ recvLog # <<>>

\* A receive suspended on the empty buffer does not return in a step that
\* starts with the buffer empty.
SuspendedReceiveStays ==
    [][\A t \in Tasks :
          (pc[t] = "get" /\ QueueEmpty(buffer)) => pc'[t] = "get"]_vars

\* A step that puts a value into the empty buffer sets the Event of the
\* receive at the head of the wait list.
ValueWakesFirstReceive ==
    [][(QueueEmpty(buffer) /\ ~QueueEmpty(buffer') /\ buffer.getters # <<>>)
          => Head(buffer.getters).event \in events']_vars

\* C3 as stated: a receive suspended on the empty buffer stays suspended while
\* the buffer stays empty, and once a send has enqueued a value (the receive's
\* Event is set) it eventually returns that value.
C3_SuspendedReceiveReturnsValue ==
    /\ SuspendedReceiveStays
    /\ \A t \in Tasks, item \in Items :
          (pc[t] = "get" /\ GetEvent(t) \in events /\ buffer.items # <<>>
              /\ Head(buffer.items) = item)
              ~> (ReceiveReturned(t) /\ op[t].item = item)

\* C3 amended: a receive suspended on the empty buffer stays suspended while
\* the buffer stays empty; a send that enqueues a value wakes the first
\* suspended receive, and that value is then returned by it, or by another
\* receive that took it before the woken one ran.
C3_WokenReceiveReturnsOrOvertaken ==
    /\ SuspendedReceiveStays
    /\ ValueWakesFirstReceive
    /\ \A t \in Tasks, item \in Items :
          (pc[t] = "get" /\ GetEvent(t) \in events /\ buffer.items # <<>>
              /\ Head(buffer.items) = item)
              ~> \/ ReceiveReturned(t) /\ op[t].item = item
                 \/ pc[t] = "get" /\ item \in Range(recvLog)

\* C3 witness: a suspended receive has been woken by a send that enqueued a
\* value, with a sender still open.
C3_Witness ==
    \E t \in Tasks :
        /\ pc[t] = "get"
        /\ GetEvent(t) \in events
        /\ buffer.items # <<>>
        /\ open_senders > 0

\* C7 as stated: a send suspended on the full buffer fails with
\* DisconnectedError once the last receiver has closed, and a receive suspended
\* on the empty buffer fails with DisconnectedError once the last sender has
\* closed; neither stays suspended for ever.
C7_SuspendedFailOnDisconnect ==
    \A t \in Tasks :
        /\ (pc[t] = "put" /\ open_receivers = 0)
              ~> Failed(t, "send", "DisconnectedError")
        /\ (pc[t] = "get" /\ open_senders = 0)
              ~> Failed(t, "receive", "DisconnectedError")

\* C8 as stated: on a rendezvous channel a task suspended in receive fails
\* with DisconnectedError once the last sender has closed, and a task
\* suspended in send fails with DisconnectedError once the last receiver has
\* closed.
C8_RendezvousSuspendedFailOnDisconnect ==
    \A t \in Tasks :
        /\ (pc[t] = "rrecv" /\ open_senders = 0)
              ~> Failed(t, "receive", "DisconnectedError")
        /\ (pc[t] = "rsend" /\ open_receivers = 0)
              ~> Failed(t, "send", "DisconnectedError")

C10_SendReturnsAfterReceive ==
    \A t \in Tasks :
        (pc[t] = "rsend" /\ op[t].item \in Range(recvLog)) ~> SendReturned(t)

\* What a call must leave alone to have no effect on the channel: counts,
\* signals, lock, buffers, waiting lists, events, endpoints, the other tasks.
ChannelStateOf(S, t) ==
    <<S.open_senders, S.open_receivers, S.senders_available,
      S.receivers_available, S.lock_holder, S.lock_waiters, S.buffer, S.queues,
      S.qkeys, S.senders, S.receivers, S.events, S.endpoints, S.nsends,
      S.sentLog, S.recvLog, [u \in Tasks \ {t} |-> S.pc[u]]>>

\* The call that took the state to S ended at once for task t by raising exc,
\* with no effect on the channel.
FailsAtOnce(S, t, exc) ==
    /\ S.pc[t] = "idle"
    /\ S.res[t] = exc
    /\ ChannelStateOf(S, t) = ChannelStateOf(State, t)

OpenEndpoint(e, role) == IsEndpoint(e, role) /\ endpoints[e].channel # NoneRef

\* C6 as stated: in every mode, send on an open sender while no receiver is
\* open fails at once with DisconnectedError and changes nothing, and so does
\* receive on an open receiver while no sender is open.
C6_DisconnectedAtOnce ==
    \A t \in Tasks :
        pc[t] = "idle" =>
            /\ \A e \in Endpoints, copyable \in BOOLEAN :
                  (OpenEndpoint(e, "Sender") /\ open_receivers = 0)
                      => FailsAtOnce(SenderSend(State, t, e, copyable), t,
                                     "DisconnectedError")
            /\ \A e \in Endpoints :
                  (OpenEndpoint(e, "Receiver") /\ open_senders = 0)
                      => FailsAtOnce(ReceiverReceive(State, t, e), t,
                                     "DisconnectedError")

\* C6 amended: as C6, except that with copy_on_send enabled a send of a value
\* that does not support copying fails at once with TypeError instead, also
\* changing nothing.
C6_DisconnectedOrTypeErrorAtOnce ==
    \A t \in Tasks :
        pc[t] = "idle" =>
            /\ \A e \in Endpoints, copyable \in BOOLEAN :
                  (OpenEndpoint(e, "Sender") /\ open_receivers = 0)
                      => FailsAtOnce(SenderSend(State, t, e, copyable), t,
                                     IF copy_on_send /\ ~copyable
                                     THEN "TypeError" ELSE "DisconnectedError")
            /\ \A e \in Endpoints :
                  (OpenEndpoint(e, "Receiver") /\ open_senders = 0)
                      => FailsAtOnce(ReceiverReceive(State, t, e), t,
                                     "DisconnectedError")

\* C6 witness: a send has just failed with DisconnectedError on an open sender
\* of a queue channel that has no open receiver and still holds a value.
C6_Witness ==
    \E t \in Tasks :
        /\ Failed(t, "send", "DisconnectedError")
        /\ open_receivers = 0
        /\ OpenEndpoint(1, "Sender")
        /\ mode = "queue"
        /\ buffer.items # <<>>

\* A rendezvous receive suspended on the pending-receiver list does not return
\* in a step that starts with no pending sender.
PendingReceiveStays ==
    [][\A t \in Tasks :
          (pc[t] = "rrecv" /\ senders = <<>>) => pc'[t] = "rrecv"]_vars

\* A send that appends its entry while receives are pending sets the Event of
\* the first pending receive.
SendWakesFirstReceive ==
    [][(receivers # <<>> /\ Len(senders') > Len(senders)
           /\ ~TaskDone(State, Head(receivers).task))
          => Head(receivers).event \in events']_vars

\* C11 as stated: on a rendezvous channel a receive suspended with no pending
\* sender is woken by a later send and eventually returns that send's value.
C11_WokenReceiveReturnsSendValue ==
    /\ SendWakesFirstReceive
    /\ \A t \in Tasks, item \in Items :
          (pc[t] = "rrecv" /\ ReceiverEvent(t) \in events /\ senders # <<>>
              /\ Head(senders).value = item)
              ~> (ReceiveReturned(t) /\ op[t].item = item)

\* C11 amended: a receive suspended with no pending sender stays suspended
\* until a send wakes it; the send's value is then returned by the woken
\* receive, or by another receive that consumed the entry before the woken one
\* ran.
C11_WokenReceiveReturnsOrOvertaken ==
    /\ PendingReceiveStays
    /\ SendWakesFirstReceive
    /\ \A t \in Tasks, item \in Items :
          (pc[t] = "rrecv" /\ ReceiverEvent(t) \in events /\ senders # <<>>
              /\ Head(senders).value = item)
              ~> \/ ReceiveReturned(t) /\ op[t].item = item
                 \/ pc[t] = "rrecv" /\ item \in Range(recvLog)

\* C11 witness: a pending receive has been woken by a send whose entry is
\* still pending.
C11_Witness ==
    \E t \in Tasks :
        /\ mode = "rendezvous"
        /\ pc[t] = "rrecv"
        /\ ReceiverEvent(t) \in events
        /\ senders # <<>>
        /\ \E u \in Tasks : pc[u] = "rsend" /\ op[u].item = Head(senders).value

\* The positions of a waiting list whose task has not finished.
Live(waiters) == {i \in DOMAIN waiters : pc[waiters[i].task] # "done"}

\* Position i is the earliest live entry of the waiting list.
EarliestLive(waiters, i) == i \in Live(waiters) /\ \A j \in Live(waiters) : i <= j

\* The entries of a waiting list after position i.
After(waiters, i) == SubSeq(waiters, i + 1, Len(waiters))

\* C12: on a rendezvous channel a receive that returns consumes the earliest
\* pending sender whose task is alive and signals only that one; a receive
\* that suspends found no live sender and signals nothing; a send wakes
\* exactly the earliest pending receiver whose task is alive, or nobody when
\* there is none.  Entries of finished tasks before the chosen one are removed
\* without being signalled and without their value being delivered.
C12_EarliestLiveWaiterWins ==
    [][mode = "rendezvous" =>
        /\ recvLog' # recvLog =>
              \E i \in DOMAIN senders :
                  /\ EarliestLive(senders, i)
                  /\ recvLog' = Append(recvLog, senders[i].value)
                  /\ senders' = After(senders, i)
                  /\ events' \ events = {senders[i].event}
        /\ Len(receivers') > Len(receivers) =>
              /\ Live(senders) = {}
              /\ senders' = <<>>
              /\ events' \subseteq events
              /\ recvLog' = recvLog
        /\ Len(senders') > Len(senders) =>
              IF Live(receivers) = {}
              THEN receivers' = <<>> /\ events' = events
              ELSE \E i \in DOMAIN receivers :
                      /\ EarliestLive(receivers, i)
                      /\ receivers' = After(receivers, i)
                      /\ events' = events \cup {receivers[i].event}
                      /\ receivers[i].event \notin events]_vars

\* C12 witness: the entry of a cancelled sender was dropped undelivered and a
\* later sender's value was received.
C12_Witness ==
    \E t \in Tasks :
        /\ mode = "rendezvous"
        /\ pc[t] = "done"
        /\ op[t].kind = "send"
        /\ op[t].item \notin Range(recvLog)
        /\ \A i \in DOMAIN senders : senders[i].value # op[t].item
        /\ \E v \in Range(recvLog) : v > op[t].item

\* C13 as stated: on a rendezvous channel, whatever receiver task is
\* cancelled, a live receive that is on the pending-receiver list while a live
\* sender entry is pending eventually obtains a value, unless the entry is
\* consumed by another receive or it is itself cancelled first.
C13_NoStuckWakeup ==
    \A t \in Tasks :
        (/\ pc[t] = "rrecv"
         /\ \E i \in DOMAIN receivers : receivers[i].task = t
         /\ Live(senders) # {})
            ~> \/ ReceiveReturned(t)
               \/ pc[t] = "done"
               \/ Live(senders) = {}

\* The receiver endpoints that are open.
OpenReceivers == {e \in DOMAIN endpoints : OpenEndpoint(e, "Receiver")}

\* The items two sequences share appear in the same relative order in both.
SameRelativeOrder(a, b) ==
    \A i, j \in DOMAIN a, k, l \in DOMAIN b :
        (i < j /\ a[i] = b[k] /\ a[j] = b[l]) => k < l

\* C14: on a broadcast channel a send that executes appends exactly one copy
\* of its item to the queue of every receiver open at that moment; every
\* receiver receives its items without repetition in the order the sends
\* executed, so any two receivers see their common items in the same order.
C14_BroadcastOneCopyEachSameOrder ==
    /\ [][(mode = "broadcast" /\ sentLog' # sentLog) =>
            \A e \in OpenReceivers :
                /\ queues'[e].items = Append(queues[e].items, nsends')
                /\ nsends' \notin Range(queues[e].items) \cup Range(delivered[e])]_vars
    /\ [](mode = "broadcast" =>
            \A e \in DOMAIN delivered :
                /\ NoDuplicates(delivered[e])
                /\ SameRelativeOrder(delivered[e], sentLog)
                /\ \A f \in DOMAIN delivered :
                      SameRelativeOrder(delivered[e], delivered[f]))

\* C14 witness: two receivers have each received two items.
C14_Witness ==
    /\ mode = "broadcast"
    /\ \E e, f \in DOMAIN delivered :
          e # f /\ Len(delivered[e]) >= 2 /\ Len(delivered[f]) >= 2

\* Receiver e, if it exists, has item k neither in its queue nor among the
\* items it received.
NotSeen(e, k) ==
    e \in DOMAIN delivered =>
        k \notin Range(queues[e].items) \cup Range(delivered[e])

\* C15: on a broadcast channel a receiver created by clone or derive_receiver
\* starts with an empty queue, and an item whose send executed while the
\* receiver did not exist (or did not get it) never reaches that receiver.
C15_LateReceiverMissesEarlierItems ==
    [][mode = "broadcast" =>
        /\ \A e \in DOMAIN delivered' \ DOMAIN delivered :
              queues'[e].items = <<>> /\ delivered'[e] = <<>>
        /\ \A e \in Endpoints, k \in 1..nsends :
              NotSeen(e, k) => NotSeen(e, k)']_vars

\* C15 witness: a receiver created after the first send executed has received
\* a later item while another receiver got the first one.
C15_Witness ==
    /\ mode = "broadcast"
    /\ \E e \in DOMAIN delivered :
          /\ e > 2
          /\ delivered[e] # <<>>
          /\ 1 \notin Range(delivered[e])
          /\ 1 \in Range(delivered[2])

\* C16: on a broadcast channel with an open receiver a send never suspends,
\* however many unreceived items the receivers' queues hold: the call ends in
\* the step that makes it, returning with its item appended to every open
\* receiver's queue (or raising TypeError for a value that breaks the copy
\* contract), and no task is ever suspended in send.
C16_BroadcastSendNeverSuspends ==
    mode = "broadcast" =>
        /\ \A t \in Tasks : pc[t] \notin {"put", "rsend"}
        /\ \A t \in Tasks, e \in Endpoints, copyable \in BOOLEAN :
              (pc[t] = "idle" /\ OpenEndpoint(e, "Sender") /\ open_receivers > 0)
                  => LET S == SenderSend(State, t, e, copyable) IN
                     /\ S.pc[t] = "idle"
                     /\ S.res[t] = IF copy_on_send /\ ~copyable
                                   THEN "TypeError" ELSE "ok"
                     /\ S.res[t] = "ok" =>
                           \A r \in OpenReceivers :
                               S.queues[r].items =
                                   Append(queues[r].items, S.nsends)

\* C16 witness: a send has returned while a receiver's queue already held two
\* unreceived items.
C16_Witness ==
    /\ mode = "broadcast"
    /\ \E t \in Tasks : SendReturned(t)
    /\ \E r \in OpenReceivers : Len(queues[r].items) >= 3

\* C17: close on an endpoint that is already closed completes at once without
\* error, leaves the endpoint closed and changes neither open_senders nor
\* open_receivers nor either availability signal (nor anything else of the
\* channel).
C17_CloseIdempotent ==
    \A t \in Tasks, e \in DOMAIN endpoints :
        (pc[t] = "idle" /\ endpoints[e].channel = NoneRef)
            => LET S == EndpointCloseCall(State, t, e) IN
               /\ S.pc[t] = "idle"
               /\ S.res[t] = "ok"
               /\ S.endpoints[e].channel = NoneRef
               /\ S.open_senders = open_senders
               /\ S.open_receivers = open_receivers
               /\ S.senders_available = senders_available
               /\ S.receivers_available = receivers_available
               /\ ChannelStateOf(S, t) = ChannelStateOf(State, t)

\* C17 witness: the last call of both tasks was a close that returned, and
\* only one endpoint is closed, so one of the two closes was a repeated one.
C17_Witness ==
    /\ \A t \in Callers : pc[t] = "idle" /\ op[t].kind = "close" /\ res[t] = "ok"
    /\ Cardinality({e \in DOMAIN endpoints : endpoints[e].channel = NoneRef}) = 1
    /\ Len(endpoints) = 2

\* C18: in every reachable state senders_available is set exactly when
\* open_senders > 0 and receivers_available is set exactly when
\* open_receivers > 0.
C18_SignalIffCountPositive ==
    /\ senders_available <=> open_senders > 0
    /\ receivers_available <=> open_receivers > 0
    /\ open_senders >= 0
    /\ open_receivers >= 0

\* C18 witness: the only sender was closed after the receiver had been cloned.
C18_Witness ==
    /\ open_senders = 0
    /\ ~senders_available
    /\ open_receivers = 2
    /\ receivers_available

\* C19: on a closed endpoint send, receive, wait_for_receivers,
\* wait_for_senders, derive_receiver and derive_sender each fail at once with
\* ClosedError and leave counts, signals, buffers and waiting lists unchanged;
\* a closed endpoint stays closed.
C19_ClosedEndpointRejectsOperations ==
    /\ [](\A t \in Callers, e \in DOMAIN endpoints :
            (pc[t] = "idle" /\ endpoints[e].channel = NoneRef) =>
                /\ FailsAtOnce(EndpointDerive(State, t, e), t, "ClosedError")
                /\ IsEndpoint(e, "Sender") =>
                      /\ \A copyable \in BOOLEAN :
                            FailsAtOnce(SenderSend(State, t, e, copyable), t,
                                        "ClosedError")
                      /\ FailsAtOnce(WaitForReceivers(State, t, e), t,
                                     "ClosedError")
                /\ IsEndpoint(e, "Receiver") =>
                      /\ FailsAtOnce(ReceiverReceive(State, t, e), t,
                                     "ClosedError")
                      /\ FailsAtOnce(WaitForSenders(State, t, e), t,
                                     "ClosedError"))
    /\ [][\A e \in DOMAIN endpoints :
            endpoints[e].channel = NoneRef
                => endpoints'[e].channel = NoneRef]_vars

\* C19 witness: a derive on a closed endpoint has just failed with ClosedError
\* while a value is still held for a receiver.
C19_Witness ==
    /\ \E t \in Tasks : Failed(t, "derive", "ClosedError")
    /\ \E e \in DOMAIN endpoints : endpoints[e].channel = NoneRef
    /\ \/ buffer.items # <<>>
       \/ senders # <<>>
       \/ \E r \in DOMAIN queues : queues[r].items # <<>>

\* C20 as stated: clone on a closed Sender or closed Receiver fails with
\* ClosedError and creates no endpoint.
C20_CloneClosedRaisesClosedError ==
    \A t \in Tasks, e \in DOMAIN endpoints :
        (pc[t] = "idle" /\ endpoints[e].channel = NoneRef)
            => LET S == EndpointClone(State, t, e) IN
               /\ FailsAtOnce(S, t, "ClosedError")
               /\ Len(S.endpoints) = Len(endpoints)

\* The role of the endpoint the clone or derive of task t is about to create.
CreatedRole(t) ==
    IF op[t].kind = "clone" THEN endpoints[op[t].ep].role
    ELSE Opposite(endpoints[op[t].ep].role)

\* Task t holds the lock in a clone or derive on an endpoint that is open.
CreatingEndpoint(t) ==
    /\ pc[t] = "lock"
    /\ lock_holder = t
    /\ op[t].kind \in {"clone", "derive"}
    /\ endpoints[op[t].ep].channel # NoneRef

\* C21: with only_single_producer, Sender.clone and Receiver.derive_sender
\* fail with ValueError while a sender is open; with only_single_consumer,
\* Receiver.clone and Sender.derive_receiver fail with ValueError while a
\* receiver is open; the failing call creates no endpoint and leaves both
\* counts and both signals unchanged.
C21_SingleProducerConsumerEnforced ==
    \A t \in Tasks :
        (/\ CreatingEndpoint(t)
         /\ \/ CreatedRole(t) = "Sender" /\ only_single_producer /\ open_senders > 0
            \/ CreatedRole(t) = "Receiver" /\ only_single_consumer /\ open_receivers > 0)
            => LET S == InsideLock(State, t) IN
               /\ S.pc[t] = "idle"
               /\ S.res[t] = "ValueError"
               /\ S.endpoints = endpoints
               /\ S.open_senders = open_senders
               /\ S.open_receivers = open_receivers
               /\ S.senders_available = senders_available
               /\ S.receivers_available = receivers_available
               /\ S.qkeys = qkeys

\* C21 witness: on a single-producer channel a derive_sender has failed with
\* ValueError while the sender is open.
C21_Witness ==
    /\ only_single_producer
    /\ open_senders = 1
    /\ \E t \in Tasks : Failed(t, "derive", "ValueError")

\* C22: create gives Broadcast mode whenever broadcast is true, whatever the
\* capacity (negative included); otherwise Rendezvous mode for capacity 0;
\* otherwise Queue mode with that capacity.  The mode never changes.
C22_ModeSelection ==
    /\ [](/\ args.broadcast => mode = "broadcast"
          /\ (~args.broadcast /\ args.capacity = 0) => mode = "rendezvous"
          /\ (~args.broadcast /\ args.capacity > 0)
                => (mode = "queue" /\ capacity = args.capacity
                      /\ buffer.maxsize = args.capacity))
    /\ [][mode' = mode /\ args' = args]_vars

\* C22 witness: a broadcast channel created with a negative capacity has
\* delivered a value.
C22_Witness ==
    /\ args.broadcast
    /\ args.capacity < 0
    /\ mode = "broadcast"
    /\ recvLog # <<>>

\* C23: create with broadcast false and a negative capacity fails with
\* ValueError and yields no endpoint (and no channel); create with capacity 0
\* does not fail but yields a rendezvous channel with its two endpoints.
C23_CapacityValidation ==
    /\ (~args.broadcast /\ args.capacity < 0)
          => /\ op[1].kind = "create"
             /\ res[1] = "ValueError"
             /\ endpoints = <<>>
             /\ mode = "none"
             /\ open_senders = 0
             /\ open_receivers = 0
    /\ (~args.broadcast /\ args.capacity = 0)
          => /\ mode = "rendezvous"
             /\ op[1].kind # "create"
             /\ Len(endpoints) >= 2
             /\ endpoints[1].role = "Sender"
             /\ endpoints[2].role = "Receiver"

\* C23 witness: create was called with a negative capacity and without
\* broadcast, and raised ValueError.
C23_Witness ==
    /\ ~args.broadcast
    /\ args.capacity < 0
    /\ res[1] = "ValueError"
    /\ endpoints = <<>>

\* C24: send_eventually returns after the first underlying send that
\* succeeds, so the value is sent exactly once: a send_eventually call in which
\* a send has returned has itself returned, and no call makes a second
\* successful send.
C24_SendEventuallyReturnsAfterSuccess ==
    \A t \in Callers :
        (op[t].kind = "send_eventually" /\ nsuccess[t] >= 1) =>
            (pc[t] = "idle" /\ res[t] = "ok" /\ nsuccess[t] = 1)

\* receive_eventually never raises DisconnectedError, waits for senders only
\* while senders_available is clear or until it is scheduled after the signal
\* was set, and a value it returns is one that was sent and that its receive
\* has just taken.
ReceiveEventuallyWaiting(t) == op[t].kind = "receive_eventually" /\ pc[t] = "wait"

ReceiveEventuallySafe ==
    /\ [](\A t \in Callers :
            /\ ~Failed(t, "receive_eventually", "DisconnectedError")
            /\ (ReceiveEventuallyWaiting(t) /\ WaitEvent(t) \notin events)
                   => ~senders_available
            /\ (ReceiveEventuallyWaiting(t) /\ senders_available)
                   => AwaitedEvent(State, t) \in events)
    /\ [][\A t \in Callers :
            (op'[t].kind = "receive_eventually" /\ pc[t] # "idle"
                /\ pc'[t] = "idle" /\ res'[t] = "ok")
            => /\ op'[t].item \in Range(sentLog) \cup Range(recvLog')
               /\ recvLog' = Append(recvLog, op'[t].item)]_vars

\* C25 (as stated): receive_eventually never fails with DisconnectedError,
\* waits for senders and retries, returns only a received value, and, waiting
\* for senders, it ends once a sender is opened and sends.
C25_ReceiveEventuallyReturns ==
    /\ ReceiveEventuallySafe
    /\ \A t \in Callers :
          [](ReceiveEventuallyWaiting(t) /\ sentLog = <<>>
                => (<>(pc[t] = "idle") \/ [](sentLog = <<>>)))

\* C25 (amended): receive_eventually never fails with DisconnectedError,
\* waits for senders and retries, returns only a received value; the retry
\* after the signal was set returns a value, suspends waiting for one, fails
\* with ClosedError, or waits for senders again when none is open any more.
C25_ReceiveEventuallyRetries ==
    /\ ReceiveEventuallySafe
    /\ [][\A t \in Callers :
            (ReceiveEventuallyWaiting(t) /\ pc'[t] # "wait")
            => \/ pc'[t] \in {"get", "rrecv"}
               \/ pc'[t] = "idle" /\ res'[t] \in {"ok", "ClosedError"}]_vars

\* A receive_eventually that waited for senders has returned a value.
C25_Witness ==
    \E t \in Callers :
        /\ op[t].kind = "receive_eventually" /\ pc[t] = "idle" /\ res[t] = "ok"
        /\ Len(endpoints) = 3 /\ recvLog # <<>> /\ op[t].item = recvLog[Len(recvLog)]

\* A task waits for the opposite role inside send_eventually or
\* receive_eventually.
EventuallyWaiting(t) ==
    op[t].kind \in {"send_eventually", "receive_eventually"} /\ pc[t] = "wait"

\* C26: send_eventually and receive_eventually swallow only DisconnectedError:
\* neither ever raises it; called on a closed endpoint they raise ClosedError
\* at once; a call whose endpoint was closed while it waited for the opposite
\* role raises ClosedError when it runs again, sending and receiving nothing;
\* send_eventually of a value that cannot be copied on a copy_on_send channel
\* raises TypeError on the first attempt.
C26_OnlyDisconnectedSwallowed ==
    /\ [](\A t \in Callers :
             /\ ~Failed(t, "send_eventually", "DisconnectedError")
             /\ ~Failed(t, "receive_eventually", "DisconnectedError"))
    /\ [][\A t \in Callers :
            /\ \A e \in DOMAIN endpoints :
                  /\ ( /\ endpoints[e].channel = NoneRef
                       /\ \/ \E copyable \in BOOLEAN : SendEventually(t, e, copyable)
                          \/ ReceiveEventually(t, e) )
                     => /\ pc'[t] = "idle" /\ res'[t] = "ClosedError"
                        /\ ChannelStateOf(State, t) = ChannelStateOf(State, t)'
                  /\ ( /\ endpoints[e].channel # NoneRef
                       /\ copy_on_send
                       /\ SendEventually(t, e, FALSE) )
                     => /\ pc'[t] = "idle" /\ res'[t] = "TypeError"
                        /\ nsuccess'[t] = 0 /\ nsends' = nsends
            /\ ( /\ EventuallyWaiting(t)
                 /\ endpoints[op[t].ep].channel = NoneRef
                 /\ Resume(t) )
               => /\ pc'[t] = "idle" /\ res'[t] = "ClosedError"
                  /\ sentLog' = sentLog /\ recvLog' = recvLog
                  /\ nsends' = nsends]_vars

\* A call waiting for the opposite role whose endpoint was closed meanwhile is
\* about to run again.
C26_Witness ==
    \E t \in Callers :
        /\ EventuallyWaiting(t)
        /\ endpoints[op[t].ep].channel = NoneRef
        /\ WaitEvent(t) \in events

\* Task t is inside wait_for_receivers / wait_for_senders.
WaitingFor(t, kind) == op[t].kind = kind /\ pc[t] = "wait"

\* The count and the signal of the role that call `kind` waits for.
AwaitedCount(kind) ==
    IF kind = "wait_for_receivers" THEN open_receivers ELSE open_senders

AwaitedSignal(kind) ==
    IF kind = "wait_for_receivers" THEN receivers_available ELSE senders_available

\* C27: wait_for_receivers on an open sender does not wait when a receiver is
\* open (its wait is over as the call is made); otherwise it stays suspended
\* while open_receivers is 0, its wait is over in the step in which
\* derive_receiver adds a receiver, and it then returns.  wait_for_senders is
\* symmetric.
C27_WaitForOppositeRole ==
    /\ [](\A t \in Callers :
           \A kind \in {"wait_for_receivers", "wait_for_senders"} :
             /\ (WaitingFor(t, kind) /\ WaitEvent(t) \notin events)
                    => (AwaitedCount(kind) = 0 /\ ~AwaitedSignal(kind))
             /\ ~(op[t].kind = kind /\ pc[t] = "idle" /\ res[t] = "DisconnectedError"))
    /\ [][\A t \in Callers :
           \A kind \in {"wait_for_receivers", "wait_for_senders"} :
             /\ (pc[t] = "idle" /\ WaitingFor(t, kind)' /\ AwaitedCount(kind) > 0)
                    => WaitEvent(t) \in events'
             /\ (WaitingFor(t, kind) /\ WaitEvent(t) \notin events)
                    => \/ WaitingFor(t, kind)' /\ WaitEvent(t) \notin events'
                       \/ /\ AwaitedCount(kind)' = 1
                          /\ WaitingFor(t, kind)' /\ WaitEvent(t) \in events'
                          /\ \E u \in Callers \ {t} :
                                op[u].kind = "derive" /\ RunLocked(u)
             /\ (WaitingFor(t, kind) /\ WaitEvent(t) \in events)
                    => \/ WaitingFor(t, kind)' /\ WaitEvent(t) \in events'
                       \/ pc'[t] = "idle" /\ res'[t] = "ok"]_vars
    /\ \A t \in Callers :
           \A kind \in {"wait_for_receivers", "wait_for_senders"} :
             (WaitingFor(t, kind) /\ WaitEvent(t) \in events)
                 ~> (op[t].kind = kind /\ pc[t] = "idle" /\ res[t] = "ok")

\* wait_for_senders that had to wait is over now that derive_sender has added
\* a sender.
C27_Witness ==
    \E t \in Callers :
        /\ WaitingFor(t, "wait_for_senders") /\ WaitEvent(t) \in events
        /\ open_senders = 1 /\ Len(endpoints) = 3
        /\ endpoints[1].channel = NoneRef /\ endpoints[3].role = "Sender"

\* C28: a step of the iteration over a Receiver does what receive does on
\* the same state: it yields the value receive returns, suspends where receive
\* suspends, ends the iteration (StopAsyncIteration) exactly when receive
\* raises DisconnectedError, which is when the endpoint is open and no sender
\* is available, and raises ClosedError on a closed endpoint; a yielded value
\* is the one just received.
C28_IterationFollowsReceive ==
    /\ [](\A t \in Callers : ~Failed(t, "__anext__", "DisconnectedError"))
    /\ [][\A t \in Callers :
           /\ \A e \in DOMAIN endpoints :
                 Anext(t, e) =>
                    LET R == ReceiverReceive(State, t, e) IN
                    /\ ChannelStateOf(State, t)' = ChannelStateOf(R, t)
                    /\ pc'[t] = R.pc[t]
                    /\ op'[t].item = R.op[t].item
                    /\ (res'[t] = "StopAsyncIteration")
                          <=> (R.pc[t] = "idle" /\ R.res[t] = "DisconnectedError")
                    /\ (res'[t] = "StopAsyncIteration")
                          <=> (endpoints[e].channel # NoneRef /\ ~senders_available)
                    /\ (res'[t] = "ClosedError") <=> (endpoints[e].channel = NoneRef)
                    /\ res'[t] # "StopAsyncIteration" => res'[t] = R.res[t]
           /\ (op'[t].kind = "__anext__" /\ pc'[t] = "idle" /\ res'[t] = "ok"
                  /\ (pc[t] # "idle" \/ op'[t] # op[t] \/ res[t] # "ok"))
                 => /\ recvLog' = Append(recvLog, op'[t].item)
                    /\ op'[t].item \in Range(sentLog) \cup
                           {op[u].item : u \in Tasks}]_vars

\* The iteration has yielded a value and, at a later step, has ended because
\* no sender is open.
C28_Witness ==
    \E t \in Callers :
        /\ Failed(t, "__anext__", "StopAsyncIteration")
        /\ recvLog # <<>>
        /\ open_senders = 0 /\ open_receivers > 0

\* C29: the step in which clone (derive) succeeds appends one open endpoint
\* of the same (the opposite) role on the same channel, raises that role's
\* count by one and leaves the other count and every existing endpoint as they
\* were; the original endpoint is open and same_channel holds between it and
\* the new endpoint.
C29_CloneDeriveFrame ==
    [][\A t \in Tasks :
         (pc[t] = "lock" /\ op[t].kind \in {"clone", "derive"}
             /\ pc'[t] = "idle" /\ res'[t] = "ok")
         => LET e == op[t].ep
                new == Len(endpoints) + 1
                role == IF op[t].kind = "clone" THEN endpoints[e].role
                        ELSE Opposite(endpoints[e].role)
            IN  /\ Len(endpoints') = new
                /\ endpoints'[new] = [role |-> role, channel |-> ChannelRef]
                /\ \A i \in DOMAIN endpoints : endpoints'[i] = endpoints[i]
                /\ endpoints'[e].channel = ChannelRef
                /\ open_senders' =
                      open_senders + (IF role = "Sender" THEN 1 ELSE 0)
                /\ open_receivers' =
                      open_receivers + (IF role = "Receiver" THEN 1 ELSE 0)
                /\ EndpointSameChannel(endpoints'[e], endpoints'[new])
                /\ EndpointSameChannel(endpoints'[new], endpoints'[e])]_vars

\* A clone of the receiver has succeeded while another task was closing the
\* sender: the third endpoint is an open receiver.
C29_Witness ==
    /\ Len(endpoints) = 3
    /\ endpoints[3] = [role |-> "Receiver", channel |-> ChannelRef]
    /\ open_receivers = 2
    /\ endpoints[1].channel = NoneRef
    /\ \E t \in Tasks : op[t].kind = "clone" /\ pc[t] = "idle" /\ res[t] = "ok"

\* C30: same_channel(a, b) returns True exactly when both endpoints are open
\* and bound to the same channel object: False when either is closed, False
\* for an endpoint of another create call, True for two open endpoints of this
\* channel; the call changes nothing in the channel.
C30_SameChannelIffOpenAndIdentical ==
    [][\A t \in Callers, e \in DOMAIN endpoints :
         \A other \in {endpoints[b] : b \in DOMAIN endpoints} \cup OtherEndpoints :
            SameChannel(t, e, other) =>
               LET self == endpoints[e] IN
               /\ pc'[t] = "idle"
               /\ res'[t] \in {"True", "False"}
               /\ (self.channel = NoneRef \/ other.channel = NoneRef)
                     => res'[t] = "False"
               /\ other.channel = OtherChannelRef => res'[t] = "False"
               /\ (self.channel = ChannelRef /\ other.channel = ChannelRef)
                     => res'[t] = "True"
               /\ ChannelStateOf(State, t)' = ChannelStateOf(State, t)]_vars

\* With a clone made and an endpoint closed, one call of same_channel has
\* returned True and another False.
C30_Witness ==
    /\ Len(endpoints) = 3
    /\ \E e \in DOMAIN endpoints : endpoints[e].channel = NoneRef
    /\ \E t, u \in Callers :
          /\ op[t].kind = "same_channel" /\ res[t] = "True"
          /\ op[u].kind = "same_channel" /\ res[u] = "False"

\* C31: with copy_on_send, a send of a value that does not support copy on
\* an open sender fails at once with TypeError in every mode and leaves the
\* buffer, every per-receiver queue, the waiting lists and the rest of the
\* channel as they were.
C31_UncopyableSendChangesNothing ==
    /\ [](\A t \in Callers, e \in DOMAIN endpoints :
            (pc[t] = "idle" /\ copy_on_send /\ IsEndpoint(e, "Sender")
                /\ endpoints[e].channel # NoneRef)
            => FailsAtOnce(SenderSend(State, t, e, FALSE), t, "TypeError"))
    /\ [][\A t \in Callers, e \in DOMAIN endpoints :
            (copy_on_send /\ endpoints[e].channel # NoneRef /\ Send(t, e, FALSE))
            => /\ Failed(t, "send", "TypeError")'
               /\ buffer' = buffer /\ queues' = queues
               /\ senders' = senders /\ receivers' = receivers
               /\ sentLog' = sentLog /\ nsends' = nsends]_vars

\* On a broadcast channel with two receivers, one of them holding a value,
\* a send has failed with TypeError.
C31_Witness ==
    /\ mode = "broadcast" /\ copy_on_send
    /\ Cardinality(qkeys) = 2
    /\ \E r \in qkeys : queues[r].items # <<>>
    /\ \E t \in Callers : Failed(t, "send", "TypeError")

\* C32: once open_senders and open_receivers are both zero they stay zero,
\* and no step creates an endpoint or reopens one.
C32_InertOnceBothCountsZero ==
    [][(open_senders = 0 /\ open_receivers = 0)
          => /\ open_senders' = 0 /\ open_receivers' = 0
             /\ endpoints' = endpoints
             /\ ~senders_available' /\ ~receivers_available']_vars

\* With both counts at zero, a derive and a clone have been tried and failed.
C32_Witness ==
    /\ open_senders = 0 /\ open_receivers = 0
    /\ \A e \in DOMAIN endpoints : endpoints[e].channel = NoneRef
    /\ \E t, u \in Tasks :
          /\ Failed(t, "derive", "ClosedError")
          /\ Failed(u, "clone", "ValueError")

\* The step is taken by the task that holds the lock, as it runs the body of
\* its `async with` and releases the lock.
StepOfLockHolder ==
    /\ lock_holder # NoTask
    /\ pc[lock_holder] = "lock"
    /\ pc'[lock_holder] = "idle"

CountsChange == open_senders' # open_senders \/ open_receivers' # open_receivers

ScopeLeft(t) == op[t].kind \in AexitKinds /\ pc[t] \in {"idle", "done"}

\* C34: once an `async with` block on an endpoint has been left, normally, by
\* an error or by cancellation, the endpoint is closed, and the counts are
\* those of the endpoints still open (one decrement for the closed one).
C34_ScopeClosesOnEveryExit ==
    \A t \in Callers :
        ScopeLeft(t) =>
            /\ endpoints[op[t].ep].channel = NoneRef
            /\ open_senders = Cardinality({e \in SenderEndpoints :
                                  endpoints[e].channel # NoneRef})
            /\ open_receivers = Cardinality({e \in ReceiverEndpoints :
                                  endpoints[e].channel # NoneRef})

\* The open endpoints of a role.
OpenEndpoints(role) ==
    {e \in DOMAIN endpoints : endpoints[e].role = role /\ endpoints[e].channel # NoneRef}

\* C35: open_senders is the number of open Sender endpoints and
\* open_receivers the number of open Receiver endpoints, 1 and 1 right after
\* create and never negative, whatever clone, derive and close calls of
\* concurrent tasks interleave.
C35_CountsMatchOpenEndpoints ==
    /\ [](/\ open_senders = Cardinality(OpenEndpoints("Sender"))
          /\ open_receivers = Cardinality(OpenEndpoints("Receiver"))
          /\ open_senders >= 0 /\ open_receivers >= 0)
    /\ [][CreateStep => (open_senders' = 1 /\ open_receivers' = 1
                           /\ Len(endpoints') = 2)]_vars

\* Two tasks have closed the same endpoint concurrently (the second failed
\* inside the lock) and a third endpoint has been added.
C35_Witness ==
    /\ Len(endpoints) = 3
    /\ \E t \in Tasks : Failed(t, "close", "AttributeError")
    /\ open_senders + open_receivers = 2

\* C36: close never ends with an error, also when two tasks close the same
\* open endpoint concurrently, and the counts are those of the open endpoints.
C36_ConcurrentCloseBothSucceed ==
    /\ \A t \in Tasks : (op[t].kind = "close" /\ pc[t] = "idle") => res[t] = "ok"
    /\ open_senders = Cardinality(OpenEndpoints("Sender"))
    /\ open_receivers = Cardinality(OpenEndpoints("Receiver"))

\* C37: a clone or derive that waited for the lock, where a close of the same
\* endpoint can overtake it, ends either with a new open endpoint that is
\* bound to the channel and counted, or with ClosedError (ValueError of the
\* single-producer / single-consumer restriction apart), and with no other
\* error.
C37_RacingCloneDeriveClosedError ==
    [][\A t \in Tasks :
         (pc[t] = "lock" /\ op[t].kind \in {"clone", "derive"} /\ pc'[t] = "idle")
         => \/ /\ res'[t] = "ok"
               /\ Len(endpoints') = Len(endpoints) + 1
               /\ endpoints'[Len(endpoints')].channel = ChannelRef
               /\ open_senders' + open_receivers'
                     = open_senders + open_receivers + 1
            \/ /\ res'[t] = "ClosedError"
               /\ endpoints' = endpoints
            \/ /\ res'[t] = "ValueError"
               /\ only_single_producer \/ only_single_consumer
               /\ endpoints' = endpoints]_vars

\* C38: with only_single_producer at most one Sender endpoint is open, and
\* with only_single_consumer at most one Receiver endpoint is open, in every
\* reachable state.
C38_AtMostOneOpenEndpoint ==
    /\ only_single_producer =>
          (Cardinality(OpenEndpoints("Sender")) <= 1 /\ open_senders <= 1)
    /\ only_single_consumer =>
          (Cardinality(OpenEndpoints("Receiver")) <= 1 /\ open_receivers <= 1)

\* On a single-producer channel the sole sender was closed and a new sender,
\* now the only open one, was derived from the receiver.
C38_Witness ==
    /\ only_single_producer
    /\ Len(endpoints) = 3
    /\ endpoints[1].channel = NoneRef
    /\ endpoints[3] = [role |-> "Sender", channel |-> ChannelRef]
    /\ open_senders = 1

\* C39: on a broadcast channel the per-receiver queues are keyed by exactly
\* the open Receiver endpoints; no step enqueues anything in the queue of a
\* receiver that is closed after the step, and receive on an open receiver
\* never misses its queue.
C39_QueuesKeyedByOpenReceivers ==
    /\ [](/\ qkeys = OpenEndpoints("Receiver")
          /\ qkeys \subseteq DOMAIN queues
          /\ \A t \in Tasks : ~Failed(t, "receive", "KeyError"))
    /\ [][\A r \in DOMAIN queues :
            r \notin qkeys' => Len(queues'[r].items) <= Len(queues[r].items)]_vars

\* A receiver was closed; a value sent afterwards is in the queue of an open
\* receiver and was never put in the closed receiver's queue.
C39_Witness ==
    \E r \in qkeys, c \in DOMAIN queues \ qkeys :
        \E item \in Range(queues[r].items) :
            item \notin Range(queues[c].items) \cup Range(delivered[c])

\* On a queue channel with no sender open, receive called on an open
\* receiver fails at once with DisconnectedError and changes nothing, whatever
\* the buffer holds.
ReceiveFailsWithoutSender ==
    \A t \in Callers, e \in DOMAIN endpoints :
        (pc[t] = "idle" /\ ~senders_available /\ IsEndpoint(e, "Receiver")
            /\ endpoints[e].channel # NoneRef)
        => FailsAtOnce(ReceiverReceive(State, t, e), t, "DisconnectedError")

====
